---- MODULE Spec2Model ----
(***************************************************************************)
(* gostt-writer ESP32 firmware: wire codec (proto.c), crypto session       *)
(* (crypto.c) and BLE channel state machine (ble_server.c).                *)
(*                                                                         *)
(* Byte buffers are sequences of 0..255; a C offset pos addresses          *)
(* buf[pos + 1].  A uint64_t is a sequence of four 16-bit limbs, least     *)
(* significant first, a uint32_t a sequence of two.                        *)
(***************************************************************************)
EXTENDS Integers, Sequences, FiniteSets, TLC

\* ------------------------------------------------------------------ config.h
GOSTT_AES_KEY_LEN == 32
GOSTT_IV_LEN == 12
GOSTT_TAG_LEN == 16
GOSTT_COMPRESSED_PUBKEY_LEN == 33
GOSTT_CMD_MUTE_TOGGLE == 1
GOSTT_CMD_MUTE_CONFIGURE == 2

\* proto.h enums
GOSTT_RESP_KEEPALIVE == 0
GOSTT_RESP_PEER_STATUS == 1
GOSTT_PEER_UNKNOWN == 0
GOSTT_PEER_KNOWN == 1

\* host/ble_hs.h: the "no connection" handle
BLE_HS_CONN_HANDLE_NONE == 65535

\* a NULL pointer (views are offsets into the input buffer, NULL is no offset)
NULL == 0 - 1

\* ------------------------------------------------------------- integer helpers
Pow2(n) == 2 ^ n

Limb == 2 ^ 16

U64Zero == <<0, 0, 0, 0>>

U32Zero == <<0, 0>>

\* value |= (uint64_t)g << shift, for a 7-bit group g whose bits are still clear
\* in value; bits shifted past bit 63 are lost
U64OrShl(value, g, shift) ==
    LET j  == shift \div 16
        x  == g * Pow2(shift % 16)
        lo == x % Limb
        hi == x \div Limb
    IN [k \in 1..4 |-> IF k = j + 1 THEN value[k] + lo
                       ELSE IF k = j + 2 THEN value[k] + hi
                       ELSE value[k]]

\* value >> 3
U64Shr3(value) ==
    [k \in 1..4 |-> (value[k] \div 8) + (IF k < 4 THEN (value[k + 1] % 8) * 8192 ELSE 0)]

\* (uint32_t)value
U32Of(value) == <<value[1], value[2]>>

\* a uint32_t holding the small number n
U32(n) == <<n % Limb, n \div Limb>>

\* a comparison made after narrowing value to 32 bits
U64Gt_narrowed(value, n) == value[2] # 0 \/ value[1] > n

\* value > n for a size n below 2^16
U64Gt(value, n) == value[4] # 0 \/ value[3] # 0 \/ value[2] # 0 \/ value[1] > n

Zeros(n) == [i \in 1..n |-> 0]

\* the len bytes of buf starting at offset ptr
View(buf, ptr, len) == IF ptr = NULL THEN <<>> ELSE SubSeq(buf, ptr + 1, ptr + len)

\* ------------------------------------------------------------------- proto.c
\* a loop that reads on past the 10th byte
RECURSIVE read_varint_loop_unbounded(_, _, _, _, _)
read_varint_loop_unbounded(buf, pos, len, i, value) ==
    IF i < len
    THEN IF buf[pos + i + 1] < 128
         THEN [n |-> i + 1, value |-> U64OrShl(value, buf[pos + i + 1] % 128, 7 * i)]
         ELSE read_varint_loop_unbounded(buf, pos, len, i + 1,
                  U64OrShl(value, buf[pos + i + 1] % 128, 7 * i))
    ELSE [n |-> 0, value |-> value]

RECURSIVE read_varint_loop(_, _, _, _, _)
read_varint_loop(buf, pos, len, i, value) ==
    IF i < len /\ i < 10
    THEN LET b  == buf[pos + i + 1]
             v2 == U64OrShl(value, b % 128, 7 * i)
         IN IF b < 128 THEN [n |-> i + 1, value |-> v2]
            ELSE read_varint_loop(buf, pos, len, i + 1, v2)
    ELSE [n |-> 0, value |-> value]

\* read_varint(buf + pos, len, &value): n bytes consumed, 0 on error
read_varint(buf, pos, len) == read_varint_loop(buf, pos, len, 0, U64Zero)

\* the result r of the iterations after the one whose loop test found the read
\* position at pos, with that position put in front of the positions the later
\* tests found
loop_iteration(pos, r) == [r EXCEPT !.heads = <<pos>> \o @]

data_packet_zero ==
    [iv |-> Zeros(GOSTT_IV_LEN), tag |-> Zeros(GOSTT_TAG_LEN),
     encrypted_data |-> NULL, encrypted_data_len |-> 0, packet_num |-> U32Zero]

\* out and the read position when the decoder returns rc; heads is filled in
\* by the loop
decode_data_packet_ret(rc, out, pos) ==
    [rc |-> rc, out |-> out, pos |-> pos, heads |-> <<>>]

RECURSIVE decode_data_packet_loop(_, _, _, _)

\* a length-delimited field of field_len bytes at pos
decode_data_packet_bytes(buf, len, pos, out, field_num, field_len) ==
    IF U64Gt(field_len, len) THEN decode_data_packet_ret(-1, out, pos)
    ELSE IF pos + field_len[1] > len THEN decode_data_packet_ret(-1, out, pos)
    ELSE IF field_num = U32(1) /\ field_len[1] # 12 THEN decode_data_packet_ret(-1, out, pos)
    ELSE IF field_num = U32(2) /\ field_len[1] # 16 THEN decode_data_packet_ret(-1, out, pos)
    ELSE decode_data_packet_loop(buf, len, pos + field_len[1],
             IF field_num = U32(1)
             THEN [out EXCEPT !.iv = SubSeq(buf, pos + 1, pos + 12)]
             ELSE IF field_num = U32(2)
             THEN [out EXCEPT !.tag = SubSeq(buf, pos + 1, pos + 16)]
             ELSE IF field_num = U32(3)
             THEN [out EXCEPT !.encrypted_data = pos,
                              !.encrypted_data_len = field_len[1]]
             ELSE out)

\* wire type 2: l is the length varint read at pos
decode_data_packet_delimited(buf, len, pos, out, field_num, l) ==
    IF l.n = 0 THEN decode_data_packet_ret(-1, out, pos)
    ELSE decode_data_packet_bytes(buf, len, pos + l.n, out, field_num, l.value)

\* wire type 0: v is the value varint read at pos
decode_data_packet_varint(buf, len, pos, out, field_num, v) ==
    IF v.n = 0 THEN decode_data_packet_ret(-1, out, pos)
    ELSE decode_data_packet_loop(buf, len, pos + v.n,
             IF field_num = U32(4)
             THEN [out EXCEPT !.packet_num = U32Of(v.value)] ELSE out)

\* the field whose tag has been read; pos is behind the tag
decode_data_packet_field(buf, len, pos, out, field_num, wire_type) ==
    IF wire_type = 0
    THEN decode_data_packet_varint(buf, len, pos, out, field_num, read_varint(buf, pos, len - pos))
    ELSE IF wire_type = 2
    THEN decode_data_packet_delimited(buf, len, pos, out, field_num, read_varint(buf, pos, len - pos))
    ELSE decode_data_packet_ret(-1, out, pos)

\* t is the tag varint read at pos
decode_data_packet_tag(buf, len, pos, out, t) ==
    IF t.n = 0 THEN decode_data_packet_ret(-1, out, pos)
    ELSE decode_data_packet_field(buf, len, pos + t.n, out, U32Of(U64Shr3(t.value)), t.value[1] % 8)

\* while (pos < len)
decode_data_packet_loop(buf, len, pos, out) ==
    IF ~(pos < len) THEN decode_data_packet_ret(0, out, pos)
    ELSE loop_iteration(pos,
             decode_data_packet_tag(buf, len, pos, out, read_varint(buf, pos, len - pos)))

gostt_decode_data_packet(buf, len) == decode_data_packet_loop(buf, len, 0, data_packet_zero)

keyboard_packet_zero == [message |-> NULL, message_len |-> 0, length |-> U32Zero]

\* out and the read position when the decoder returns rc; heads is filled in
\* by the loop
decode_keyboard_packet_ret(rc, out, pos) ==
    [rc |-> rc, out |-> out, pos |-> pos, heads |-> <<>>]

RECURSIVE decode_keyboard_packet_loop(_, _, _, _)

\* a length-delimited field of field_len bytes at pos
decode_keyboard_packet_bytes(buf, len, pos, out, field_num, field_len) ==
    IF U64Gt(field_len, len) THEN decode_keyboard_packet_ret(-1, out, pos)
    ELSE IF pos + field_len[1] > len THEN decode_keyboard_packet_ret(-1, out, pos)
    ELSE decode_keyboard_packet_loop(buf, len, pos + field_len[1],
             IF field_num = U32(1)
             THEN [out EXCEPT !.message = pos, !.message_len = field_len[1]]
             ELSE out)

\* wire type 2: l is the length varint read at pos
decode_keyboard_packet_delimited(buf, len, pos, out, field_num, l) ==
    IF l.n = 0 THEN decode_keyboard_packet_ret(-1, out, pos)
    ELSE decode_keyboard_packet_bytes(buf, len, pos + l.n, out, field_num, l.value)

\* a decoder that takes a missing value for 0
decode_keyboard_packet_varint_defaulting(buf, len, pos, out, field_num, v) ==
    IF v.n = 0 THEN decode_keyboard_packet_ret(0, out, pos)
    ELSE decode_keyboard_packet_loop(buf, len, pos + v.n,
             IF field_num = U32(2)
             THEN [out EXCEPT !.length = U32Of(v.value)] ELSE out)

\* wire type 0: v is the value varint read at pos
decode_keyboard_packet_varint(buf, len, pos, out, field_num, v) ==
    IF v.n = 0 THEN decode_keyboard_packet_ret(-1, out, pos)
    ELSE decode_keyboard_packet_loop(buf, len, pos + v.n,
             IF field_num = U32(2)
             THEN [out EXCEPT !.length = U32Of(v.value)] ELSE out)

\* the field whose tag has been read; pos is behind the tag
decode_keyboard_packet_field(buf, len, pos, out, field_num, wire_type) ==
    IF wire_type = 0
    THEN decode_keyboard_packet_varint(buf, len, pos, out, field_num, read_varint(buf, pos, len - pos))
    ELSE IF wire_type = 2
    THEN decode_keyboard_packet_delimited(buf, len, pos, out, field_num, read_varint(buf, pos, len - pos))
    ELSE decode_keyboard_packet_ret(-1, out, pos)

\* t is the tag varint read at pos
decode_keyboard_packet_tag(buf, len, pos, out, t) ==
    IF t.n = 0 THEN decode_keyboard_packet_ret(-1, out, pos)
    ELSE decode_keyboard_packet_field(buf, len, pos + t.n, out, U32Of(U64Shr3(t.value)), t.value[1] % 8)

\* a decoder that holds the declared length against the message length
decode_keyboard_packet_loop_validating(buf, len, pos, out) ==
    IF ~(pos < len)
    THEN decode_keyboard_packet_ret(
             IF out.length = U32(out.message_len) THEN 0 ELSE -1, out, pos)
    ELSE loop_iteration(pos,
             decode_keyboard_packet_tag(buf, len, pos, out, read_varint(buf, pos, len - pos)))

\* while (pos < len)
decode_keyboard_packet_loop(buf, len, pos, out) ==
    IF ~(pos < len) THEN decode_keyboard_packet_ret(0, out, pos)
    ELSE loop_iteration(pos,
             decode_keyboard_packet_tag(buf, len, pos, out, read_varint(buf, pos, len - pos)))

gostt_decode_keyboard_packet(buf, len) == decode_keyboard_packet_loop(buf, len, 0, keyboard_packet_zero)

encrypted_data_zero ==
    [keyboard_packet_data |-> NULL, keyboard_packet_data_len |-> 0,
     command_type |-> U32Zero, command_data |-> NULL, command_data_len |-> 0]

\* out and the read position when the decoder returns rc; heads is filled in
\* by the loop
decode_encrypted_data_ret(rc, out, pos) ==
    [rc |-> rc, out |-> out, pos |-> pos, heads |-> <<>>]

RECURSIVE decode_encrypted_data_loop(_, _, _, _)

\* a length-delimited field taken at its declared length, unchecked
decode_encrypted_data_bytes_unchecked(buf, len, pos, out, field_num, field_len) ==
    decode_encrypted_data_loop(buf, len, pos + field_len[1],
        IF field_num = U32(1)
        THEN [out EXCEPT !.keyboard_packet_data = pos,
                         !.keyboard_packet_data_len = field_len[1]]
        ELSE IF field_num = U32(3)
        THEN [out EXCEPT !.command_data = pos,
                         !.command_data_len = field_len[1]]
        ELSE out)

\* a length-delimited field of field_len bytes at pos
decode_encrypted_data_bytes(buf, len, pos, out, field_num, field_len) ==
    IF U64Gt(field_len, len) THEN decode_encrypted_data_ret(-1, out, pos)
    ELSE IF pos + field_len[1] > len THEN decode_encrypted_data_ret(-1, out, pos)
    ELSE decode_encrypted_data_loop(buf, len, pos + field_len[1],
             IF field_num = U32(1)
             THEN [out EXCEPT !.keyboard_packet_data = pos,
                              !.keyboard_packet_data_len = field_len[1]]
             ELSE IF field_num = U32(3)
             THEN [out EXCEPT !.command_data = pos,
                              !.command_data_len = field_len[1]]
             ELSE out)

\* wire type 2: l is the length varint read at pos
decode_encrypted_data_delimited(buf, len, pos, out, field_num, l) ==
    IF l.n = 0 THEN decode_encrypted_data_ret(-1, out, pos)
    ELSE decode_encrypted_data_bytes(buf, len, pos + l.n, out, field_num, l.value)

\* a decoder that keeps a command type of 2^32 and more apart from zero
decode_encrypted_data_varint_saturating(buf, len, pos, out, field_num, v) ==
    IF v.n = 0 THEN decode_encrypted_data_ret(-1, out, pos)
    ELSE decode_encrypted_data_loop(buf, len, pos + v.n,
             IF field_num = U32(2)
             THEN [out EXCEPT !.command_type =
                       IF v.value[3] # 0 \/ v.value[4] # 0 THEN <<Limb - 1, Limb - 1>>
                       ELSE U32Of(v.value)]
             ELSE out)

\* wire type 0: v is the value varint read at pos
decode_encrypted_data_varint(buf, len, pos, out, field_num, v) ==
    IF v.n = 0 THEN decode_encrypted_data_ret(-1, out, pos)
    ELSE decode_encrypted_data_loop(buf, len, pos + v.n,
             IF field_num = U32(2)
             THEN [out EXCEPT !.command_type = U32Of(v.value)] ELSE out)

\* a decoder that skips the 8 bytes of a fixed64 field
decode_encrypted_data_field_fixed64(buf, len, pos, out, field_num, wire_type) ==
    IF wire_type = 0
    THEN decode_encrypted_data_varint(buf, len, pos, out, field_num, read_varint(buf, pos, len - pos))
    ELSE IF wire_type = 2
    THEN decode_encrypted_data_delimited(buf, len, pos, out, field_num, read_varint(buf, pos, len - pos))
    ELSE IF wire_type = 1 /\ pos + 8 <= len
    THEN decode_encrypted_data_loop(buf, len, pos + 8, out)
    ELSE decode_encrypted_data_ret(-1, out, pos)

\* the field whose tag has been read; pos is behind the tag
decode_encrypted_data_field(buf, len, pos, out, field_num, wire_type) ==
    IF wire_type = 0
    THEN decode_encrypted_data_varint(buf, len, pos, out, field_num, read_varint(buf, pos, len - pos))
    ELSE IF wire_type = 2
    THEN decode_encrypted_data_delimited(buf, len, pos, out, field_num, read_varint(buf, pos, len - pos))
    ELSE decode_encrypted_data_ret(-1, out, pos)

\* t is the tag varint read at pos
decode_encrypted_data_tag(buf, len, pos, out, t) ==
    IF t.n = 0 THEN decode_encrypted_data_ret(-1, out, pos)
    ELSE decode_encrypted_data_field(buf, len, pos + t.n, out, U32Of(U64Shr3(t.value)), t.value[1] % 8)

\* while (pos < len)
decode_encrypted_data_loop(buf, len, pos, out) ==
    IF ~(pos < len) THEN decode_encrypted_data_ret(0, out, pos)
    ELSE loop_iteration(pos,
             decode_encrypted_data_tag(buf, len, pos, out, read_varint(buf, pos, len - pos)))

gostt_decode_encrypted_data(buf, len) == decode_encrypted_data_loop(buf, len, 0, encrypted_data_zero)

\* byte b, then what the rest of the loop wrote and returned; b stays written
\* when a later iteration returns -1
write_varint_more(b, r) == [n |-> r.n, bytes |-> <<b>> \o r.bytes]

\* a loop that never sets the continuation bit
RECURSIVE write_varint_loop_no_continuation(_, _, _)
write_varint_loop_no_continuation(buf_len, value, n) ==
    IF n >= buf_len THEN [n |-> -1, bytes |-> <<>>]
    ELSE IF value \div 128 > 0
    THEN write_varint_more(value % 128,
             write_varint_loop_no_continuation(buf_len, value \div 128, n + 1))
    ELSE [n |-> n + 1, bytes |-> <<value % 128>>]

RECURSIVE write_varint_loop(_, _, _)
write_varint_loop(buf_len, value, n) ==
    IF n >= buf_len THEN [n |-> -1, bytes |-> <<>>]
    ELSE IF value \div 128 > 0
    THEN write_varint_more((value % 128) + 128, write_varint_loop(buf_len, value \div 128, n + 1))
    ELSE [n |-> n + 1, bytes |-> <<value % 128>>]

\* write_varint(buf, buf_len, value): the return value n (byte count or -1) and
\* the bytes written, from buf[0] on
write_varint(buf_len, value) == write_varint_loop(buf_len, value, 0)

\* a const uint8_t * argument: NULL, or a caller buffer holding bytes
NullPtr == [null |-> TRUE, bytes |-> <<>>]

Ptr(bytes) == [null |-> FALSE, bytes |-> bytes]

\* what the encoder returns: rc the byte count or -1, bytes what it wrote to
\* buf from index 0 on, also when it returns -1
encode_ret(rc, bytes) == [rc |-> rc, bytes |-> bytes]

\* lines 195-197: the payload bytes behind the length n3
encode_payload(buf_len, bytes, data, data_len, n3) ==
    IF n3.n < 0 THEN encode_ret(-1, bytes \o n3.bytes)
    ELSE IF Len(bytes) + n3.n + data_len > buf_len THEN encode_ret(-1, bytes \o n3.bytes)
    ELSE encode_ret(Len(bytes) + n3.n + data_len,
                    bytes \o n3.bytes \o SubSeq(data.bytes, 1, data_len))

\* an encoder that writes a zero-length field 3 for an empty payload
encode_field3_empty_written(buf_len, bytes, n2, data, data_len) ==
    IF n2.n < 0 THEN encode_ret(-1, bytes \o n2.bytes)
    ELSE IF ~data.null
    THEN IF Len(bytes) + n2.n >= buf_len THEN encode_ret(-1, bytes \o n2.bytes)
         ELSE encode_payload(buf_len, bytes \o n2.bytes \o <<26>>, data, data_len,
                  write_varint(buf_len - (Len(bytes) + n2.n + 1), data_len))
    ELSE encode_ret(Len(bytes) + n2.n, bytes \o n2.bytes)

\* lines 188-200: field 3 behind the peer_status varint n2
encode_field3(buf_len, bytes, n2, data, data_len) ==
    IF n2.n < 0 THEN encode_ret(-1, bytes \o n2.bytes)
    ELSE IF ~data.null /\ data_len > 0
    THEN IF Len(bytes) + n2.n >= buf_len THEN encode_ret(-1, bytes \o n2.bytes)
         ELSE encode_payload(buf_len, bytes \o n2.bytes \o <<26>>, data, data_len,
                  write_varint(buf_len - (Len(bytes) + n2.n + 1), data_len))
    ELSE encode_ret(Len(bytes) + n2.n, bytes \o n2.bytes)

\* an encoder whose capacity test before the field 2 tag is off by one
encode_field2_off_by_one(buf_len, bytes, n1, peer_status, data, data_len) ==
    IF n1.n < 0 THEN encode_ret(-1, bytes \o n1.bytes)
    ELSE IF Len(bytes) + n1.n > buf_len THEN encode_ret(-1, bytes \o n1.bytes)
    ELSE encode_field3(buf_len, bytes \o n1.bytes \o <<16>>,
             write_varint(buf_len - (Len(bytes) + n1.n + 1), peer_status), data, data_len)

\* lines 181-186: field 2 behind the type varint n1
encode_field2(buf_len, bytes, n1, peer_status, data, data_len) ==
    IF n1.n < 0 THEN encode_ret(-1, bytes \o n1.bytes)
    ELSE IF Len(bytes) + n1.n >= buf_len THEN encode_ret(-1, bytes \o n1.bytes)
    ELSE encode_field3(buf_len, bytes \o n1.bytes \o <<16>>,
             write_varint(buf_len - (Len(bytes) + n1.n + 1), peer_status), data, data_len)

gostt_encode_response_packet(buf_len, type, peer_status, data, data_len) ==
    IF 0 >= buf_len THEN encode_ret(-1, <<>>)
    ELSE encode_field2(buf_len, <<8>>, write_varint(buf_len - 1, type),
                       peer_status, data, data_len)

\* ------------------------------------------------------------------ bounds
\* ephemeral key pairs psa_generate_key can draw
MaxEph == 2

\* connection handles the stack hands out, 0..MaxHandle, where the tasks are
\* followed line by line
MaxHandle == 1

EphKeys == 1..MaxEph

\* x coordinates of the curve points the peers use
CurveXs == {1}

\* ------------------------------------------------- cryptographic primitives
\* A compressed point is 33 bytes: the parity prefix and the x coordinate, here
\* 32 equal bytes.  P-256 key pairs, ECDH, HKDF and AES-GCM are the library's;
\* they are modelled by what the session relies on: derivation is a function of
\* the ephemeral key and the peer's x coordinate, the keystream is a per-byte
\* bijection, and the tag is a function of key, iv and ciphertext.
Point(prefix, x) == <<prefix>> \o [i \in 1..32 |-> x]

\* mbedtls_ecp_point_read_binary + mbedtls_ecp_check_pubkey accept the point
OnCurve(pt) == pt[1] \in {2, 3} /\ pt[2] \in CurveXs

\* psa_export_public_key + compress_pubkey of the ephemeral key pair eph
OwnPubkey(eph) == Point(2 + (eph % 2), 100 + eph)

\* psa_raw_key_agreement + HKDF-SHA256(info = "toothpaste"): the 32-byte key,
\* named by a number; 0 names the all-zero key
DeriveKey(eph, pt) == 100 * eph + pt[2]

DerivedKeys == {100 * e + x : e \in EphKeys, x \in CurveXs}

\* what psa_key_derivation_output_bytes leaves in the output buffer on failure
\* when it does not leave it alone ('!' bytes)
KeyGarbage == 33

\* the bytes lo..hi of s, each weighted by an odd number, summed modulo 256
RECURSIVE SumRange(_, _, _)
SumRange(s, lo, hi) ==
    IF lo > hi THEN 0
    ELSE IF lo = hi THEN (s[lo] * (2 * lo - 1)) % 256
    ELSE (SumRange(s, lo, (lo + hi) \div 2) + SumRange(s, (lo + hi) \div 2 + 1, hi)) % 256

SumBytes(s, i) == SumRange(s, i, Len(s))

GcmStream(key, iv, i) == (key * 7 + iv[1] * 3 + i) % 256

\* AES-256-GCM tag of ciphertext ct under key and iv, no AAD
GcmTag(key, iv, ct) ==
    [j \in 1..GOSTT_TAG_LEN |-> (key * 13 + SumBytes(iv, 1) + SumBytes(ct, 1) + Len(ct) + j) % 256]

GcmDecryptBytes(key, iv, ct) ==
    [i \in 1..Len(ct) |-> (ct[i] + 256 - GcmStream(key, iv, i)) % 256]

\* the peer's side: encryption under key and iv
GcmEncryptBytes(key, iv, pt) ==
    [i \in 1..Len(pt) |-> (pt[i] + GcmStream(key, iv, i)) % 256]

\* a decryption that does not verify the tag
psa_aead_decrypt_unverified(key, iv, combined) ==
    [ok |-> TRUE,
     plaintext |-> GcmDecryptBytes(key, iv,
                       SubSeq(combined, 1, Len(combined) - GOSTT_TAG_LEN))]

\* psa_aead_decrypt(key, PSA_ALG_GCM, iv, ciphertext || tag)
psa_aead_decrypt(key, iv, combined) ==
    LET n   == Len(combined) - GOSTT_TAG_LEN
        ct  == SubSeq(combined, 1, n)
        tag == SubSeq(combined, n + 1, Len(combined))
    IN IF tag = GcmTag(key, iv, ct)
       THEN [ok |-> TRUE, plaintext |-> GcmDecryptBytes(key, iv, ct)]
       ELSE [ok |-> FALSE, plaintext |-> <<>>]

\* ----------------------------------------------------- persistent store (NVS)
NoBlob == [present |-> FALSE, len |-> 0, val |-> 0]

Blob(len, val) == [present |-> TRUE, len |-> len, val |-> val]

nvs_empty == [aes_key |-> NoBlob, peer_pub |-> NoBlob, mute_cfg |-> NoBlob]

\* ------------------------------------------------------------------ crypto.c
\* gostt_crypto_ctx_t after memset(ctx, 0, sizeof(*ctx))
ctx_zero == [aes_key |-> 0, has_key |-> FALSE,
             peer_pubkey |-> Zeros(GOSTT_COMPRESSED_PUBKEY_LEN)]

\* points of failure of the library and store calls; at most one per call
PairFaults ==
    {"none", "generate", "export", "compress", "decompress", "ecdh",
     "hkdf_import", "hkdf_setup", "hkdf_salt", "hkdf_ikm", "hkdf_info",
     "hkdf_output_intact", "hkdf_output_clobber",
     "nvs_open", "nvs_set_aes", "nvs_set_peer"}

\* a load that takes a stored key of any length that fits
load_key_from_nvs_any_length(ctx, nv, fault) ==
    IF fault = "nvs_open" THEN [rc |-> -1, ctx |-> ctx]
    ELSE IF nv.aes_key.present /\ nv.aes_key.len <= GOSTT_AES_KEY_LEN
    THEN [rc |-> 0, ctx |-> [ctx EXCEPT !.aes_key = nv.aes_key.val, !.has_key = TRUE]]
    ELSE [rc |-> -1, ctx |-> ctx]

load_key_from_nvs(ctx, nv, fault) ==
    IF fault = "nvs_open" THEN [rc |-> -1, ctx |-> ctx]
    ELSE
    LET b   == nv.aes_key
        got == b.present /\ b.len <= GOSTT_AES_KEY_LEN
        c1  == IF got /\ b.len = GOSTT_AES_KEY_LEN
               THEN [ctx EXCEPT !.aes_key = b.val, !.has_key = TRUE,
                                !.peer_pubkey =
                                    IF nv.peer_pub.present
                                       /\ nv.peer_pub.len <= GOSTT_COMPRESSED_PUBKEY_LEN
                                    THEN nv.peer_pub.val ELSE @]
               ELSE IF got THEN [ctx EXCEPT !.aes_key = b.val]
               ELSE ctx
    IN [rc |-> IF c1.has_key THEN 0 ELSE -1, ctx |-> c1]

\* a save that writes the peer public key and not the AES key
save_key_to_nvs_peer_only(ctx, peer_pubkey, nv, fault) ==
    IF fault \in {"nvs_open", "nvs_set_aes"} THEN [rc |-> -1, nvs |-> nv]
    ELSE [rc |-> 0,
          nvs |-> [nv EXCEPT !.peer_pub = Blob(GOSTT_COMPRESSED_PUBKEY_LEN, peer_pubkey)]]

save_key_to_nvs(ctx, peer_pubkey, nv, fault) ==
    IF fault = "nvs_open" THEN [rc |-> -1, nvs |-> nv]
    ELSE IF fault = "nvs_set_aes" THEN [rc |-> -1, nvs |-> nv]
    ELSE
    LET nv1 == [nv EXCEPT !.aes_key = Blob(GOSTT_AES_KEY_LEN, ctx.aes_key)]
        nv2 == IF fault = "nvs_set_peer" THEN nv1
               ELSE [nv1 EXCEPT !.peer_pub = Blob(GOSTT_COMPRESSED_PUBKEY_LEN, peer_pubkey)]
    IN [rc |-> 0, nvs |-> nv2]

gostt_crypto_init(nv, psa_ok, fault) ==
    IF ~psa_ok THEN [rc |-> -1, ctx |-> ctx_zero]
    ELSE [rc |-> 0, ctx |-> load_key_from_nvs(ctx_zero, nv, fault).ctx]

\* a pairing that keeps the derived key only if save_key_to_nvs stored it
gostt_crypto_pair_persist_or_drop(ctx, nv, peer_compressed_pubkey, eph, fault) ==
    IF fault \in PairFaults \ {"none", "nvs_open", "nvs_set_aes", "nvs_set_peer"}
       \/ ~OnCurve(peer_compressed_pubkey)
    THEN [rc |-> -1, ctx |-> ctx, nvs |-> nv, own_pubkey |-> <<>>, save_rc |-> 1]
    ELSE
    LET c1 == [ctx EXCEPT !.aes_key = DeriveKey(eph, peer_compressed_pubkey),
                          !.has_key = TRUE,
                          !.peer_pubkey = peer_compressed_pubkey]
        sv == save_key_to_nvs(c1, peer_compressed_pubkey, nv, fault)
    IN [rc |-> 0, ctx |-> IF sv.rc = 0 THEN c1 ELSE ctx, nvs |-> sv.nvs,
        own_pubkey |-> OwnPubkey(eph), save_rc |-> sv.rc]

\* own_pubkey is what own_pubkey_out holds afterwards (<<>>: never written);
\* save_rc is what save_key_to_nvs returned (0 or -1), 1 when it was not called
gostt_crypto_pair(ctx, nv, peer_compressed_pubkey, eph, fault) ==
    LET fail(c, own) == [rc |-> -1, ctx |-> c, nvs |-> nv, own_pubkey |-> own,
                         save_rc |-> 1] IN
    IF fault = "generate" THEN fail(ctx, <<>>)
    ELSE IF fault = "export" THEN fail(ctx, <<>>)
    ELSE IF fault = "compress" THEN fail(ctx, <<>>)
    ELSE
    LET own == OwnPubkey(eph) IN
    IF fault = "decompress" \/ ~OnCurve(peer_compressed_pubkey) THEN fail(ctx, own)
    ELSE IF fault \in {"ecdh", "hkdf_import", "hkdf_setup", "hkdf_salt",
                       "hkdf_ikm", "hkdf_info"} THEN fail(ctx, own)
    ELSE IF fault = "hkdf_output_intact" THEN fail(ctx, own)
    ELSE IF fault = "hkdf_output_clobber"
         THEN fail([ctx EXCEPT !.aes_key = KeyGarbage], own)
    ELSE
    LET c1 == [ctx EXCEPT !.aes_key = DeriveKey(eph, peer_compressed_pubkey),
                          !.has_key = TRUE,
                          !.peer_pubkey = peer_compressed_pubkey]
        sv == save_key_to_nvs(c1, peer_compressed_pubkey, nv, fault)
    IN [rc |-> 0, ctx |-> c1, nvs |-> sv.nvs, own_pubkey |-> own, save_rc |-> sv.rc]

INT_MAX == 2147483647

DecryptFaults == {"none", "import", "malloc"}

\* a decryption that takes an empty ciphertext
gostt_crypto_decrypt_empty_allowed(ctx, iv, tag, ciphertext, ciphertext_len, fault) ==
    IF ~ctx.has_key THEN [rc |-> -1, plaintext |-> <<>>]
    ELSE IF ciphertext_len > INT_MAX THEN [rc |-> -1, plaintext |-> <<>>]
    ELSE IF fault = "import" THEN [rc |-> -1, plaintext |-> <<>>]
    ELSE IF fault = "malloc" THEN [rc |-> -1, plaintext |-> <<>>]
    ELSE IF ~psa_aead_decrypt(ctx.aes_key, iv, ciphertext \o tag).ok
    THEN [rc |-> -1, plaintext |-> <<>>]
    ELSE [rc |-> Len(psa_aead_decrypt(ctx.aes_key, iv, ciphertext \o tag).plaintext),
          plaintext |-> psa_aead_decrypt(ctx.aes_key, iv, ciphertext \o tag).plaintext]

\* a decryption that looks at the output length and not at the status
gostt_crypto_decrypt_status_ignored(ctx, iv, tag, ciphertext, ciphertext_len, fault) ==
    IF ~ctx.has_key THEN [rc |-> -1, plaintext |-> <<>>]
    ELSE IF ciphertext_len = 0 \/ ciphertext_len > INT_MAX
         THEN [rc |-> -1, plaintext |-> <<>>]
    ELSE IF fault = "import" THEN [rc |-> -1, plaintext |-> <<>>]
    ELSE IF fault = "malloc" THEN [rc |-> -1, plaintext |-> <<>>]
    ELSE [rc |-> Len(psa_aead_decrypt(ctx.aes_key, iv, ciphertext \o tag).plaintext),
          plaintext |-> psa_aead_decrypt(ctx.aes_key, iv, ciphertext \o tag).plaintext]

\* rc is the plaintext length or -1; plaintext is what plaintext_out holds
gostt_crypto_decrypt(ctx, iv, tag, ciphertext, ciphertext_len, fault) ==
    IF ~ctx.has_key THEN [rc |-> -1, plaintext |-> <<>>]
    ELSE IF ciphertext_len = 0 \/ ciphertext_len > INT_MAX
         THEN [rc |-> -1, plaintext |-> <<>>]
    ELSE IF fault = "import" THEN [rc |-> -1, plaintext |-> <<>>]
    ELSE IF fault = "malloc" THEN [rc |-> -1, plaintext |-> <<>>]
    ELSE
    LET r == psa_aead_decrypt(ctx.aes_key, iv, ciphertext \o tag) IN
    IF ~r.ok THEN [rc |-> -1, plaintext |-> <<>>]
    ELSE [rc |-> Len(r.plaintext), plaintext |-> r.plaintext]

gostt_crypto_erase(ctx, nv, open_ok) ==
    [rc |-> 0, ctx |-> ctx_zero, nvs |-> IF open_ok THEN nvs_empty ELSE nv]

\* --------------------------------------------------------------------- led.c
\* s_state and the two one-shot flags; s_prev_state is assigned by gostt_led_set
\* and read nowhere, so it is not part of the state
led_init == [s_state |-> "OFF", s_flash_typing |-> FALSE, s_flash_error |-> FALSE]

gostt_led_set(led, state) == [led EXCEPT !.s_state = state]

gostt_led_flash_typing(led) == [led EXCEPT !.s_flash_typing = TRUE]

gostt_led_flash_error(led) == [led EXCEPT !.s_flash_error = TRUE]

\* one pass of led_task: the one-shot flashes are shown and cleared
led_task(led) == [led EXCEPT !.s_flash_typing = FALSE, !.s_flash_error = FALSE]

\* ---------------------------------------------------------- mute.c / main.c
GOSTT_MUTE_CONSUMER_CONTROL == 0
GOSTT_MUTE_KEYBOARD_SHORTCUT == 1

\* gostt_mute_configure: the store after it (the in-memory s_mute_cfg is not kept)
gostt_mute_configure(data, len, nv, open_ok) ==
    IF len < 1 THEN nv
    ELSE IF data[1] \in {GOSTT_MUTE_CONSUMER_CONTROL, GOSTT_MUTE_KEYBOARD_SHORTCUT}
    THEN IF len < 3 THEN nv
         ELSE IF open_ok THEN [nv EXCEPT !.mute_cfg = Blob(3, SubSeq(data, 1, 3))]
         ELSE nv
    ELSE nv

\* on_command_received: the command sink wired in by app_main
on_command_received(command_type, data, data_len, nv, open_ok) ==
    IF command_type = U32(GOSTT_CMD_MUTE_CONFIGURE)
    THEN gostt_mute_configure(data, data_len, nv, open_ok)
    ELSE nv

\* the gostt_ble_config_t app_main passes: both callbacks are set
s_config == [on_text |-> TRUE, on_command |-> TRUE]

\* -------------------------------------------------------------- ble_server.c
BLE_ATT_ERR_INVALID_ATTR_VALUE_LEN == 13

\* sizeof(buf) and sizeof(plaintext) in tx_char_write_cb
TX_BUF_SIZE == 512

\* sizeof(resp_buf) in tx_char_write_cb
RESP_BUF_SIZE == 128

\* sizeof(buf) in keepalive_timer_cb
KEEPALIVE_BUF_SIZE == 16

Call(fn, rc) == [fn |-> fn, rc |-> rc]

\* what a handler invocation did besides changing state: its return code, the
\* notifications handed to ble_gatts_notify_custom, the sink calls, and the
\* functions it called with their return codes, in order
Done(rc, crypto, nv, led, notified, text, command, calls) ==
    [rc |-> rc, crypto |-> crypto, nvs |-> nv, led |-> led, notified |-> notified,
     text |-> text, command |-> command, calls |-> calls]

\* the environment of one handler run: the ephemeral key drawn, the library or
\* store call that fails (if any), whether an mbuf can be allocated
WriteEnv(eph, fault, dfault, mbuf_ok, mute_open_ok) ==
    [eph |-> eph, fault |-> fault, dfault |-> dfault, mbuf_ok |-> mbuf_ok,
     mute_open_ok |-> mute_open_ok]

\* the environments of a pairing request: every ephemeral key with and without
\* an mbuf for the response, every ephemeral key with each failure of the store,
\* and each failure that stops the pairing
PairEnvs ==
    {WriteEnv(eph, "none", "none", mbuf_ok, TRUE) : eph \in EphKeys, mbuf_ok \in BOOLEAN}
    \cup {WriteEnv(eph, fault, "none", TRUE, TRUE) :
              eph \in EphKeys, fault \in {"nvs_open", "nvs_set_aes", "nvs_set_peer"}}
    \cup {WriteEnv(1, fault, "none", TRUE, TRUE) :
              fault \in PairFaults \ {"none", "nvs_open", "nvs_set_aes", "nvs_set_peer"}}

\* the environments of an encrypted command
CommandEnvs ==
    {WriteEnv(1, "none", dfault, TRUE, TRUE) : dfault \in DecryptFaults}
    \cup {WriteEnv(1, "none", "none", TRUE, FALSE)}

\* a pairing branch that leaves the status as it was
tx_pair_respond_status_kept(p, conn_handle, led, resp, send) ==
    Done(0, p.ctx, p.nvs, led,
         IF send THEN <<[conn |-> conn_handle, bytes |-> resp.bytes]>> ELSE <<>>,
         <<>>, <<>>,
         <<Call("save_key_to_nvs", p.save_rc), Call("gostt_crypto_pair", p.rc),
           Call("gostt_encode_response_packet", resp.rc)>>
             \o (IF send THEN <<Call("ble_gatts_notify_custom", 0)>> ELSE <<>>))

\* lines 73-78: the notification, if send, and the led
tx_pair_respond(p, conn_handle, led, resp, send) ==
    Done(0, p.ctx, p.nvs, gostt_led_set(led, "PAIRED"),
         IF send THEN <<[conn |-> conn_handle, bytes |-> resp.bytes]>> ELSE <<>>,
         <<>>, <<>>,
         <<Call("save_key_to_nvs", p.save_rc), Call("gostt_crypto_pair", p.rc),
           Call("gostt_encode_response_packet", resp.rc)>>
             \o (IF send THEN <<Call("ble_gatts_notify_custom", 0)>> ELSE <<>>)
             \o <<Call("gostt_led_set", 0)>>)

\* lines 66-72: resp is the encoded response; it is sent if it was encoded, a
\* connection is recorded and an mbuf could be allocated
tx_pair_encoded(p, conn_handle, led, e, resp) ==
    tx_pair_respond(p, conn_handle, led, resp,
                    resp.rc > 0 /\ conn_handle # BLE_HS_CONN_HANDLE_NONE /\ e.mbuf_ok)

\* lines 55-66: p is what gostt_crypto_pair returned
tx_paired(p, conn_handle, led, e) ==
    IF p.rc # 0
    THEN Done(0, p.ctx, p.nvs, gostt_led_flash_error(led), <<>>, <<>>, <<>>,
              <<Call("gostt_crypto_pair", p.rc), Call("gostt_led_flash_error", 0)>>)
    ELSE tx_pair_encoded(p, conn_handle, led, e,
             gostt_encode_response_packet(RESP_BUF_SIZE, GOSTT_RESP_PEER_STATUS,
                 GOSTT_PEER_KNOWN, Ptr(p.own_pubkey), GOSTT_COMPRESSED_PUBKEY_LEN))

\* lines 50-79: the pairing request
tx_pairing(buf, crypto, nv, conn_handle, led, e) ==
    tx_paired(gostt_crypto_pair(crypto, nv, buf, e.eph, e.fault), conn_handle, led, e)

\* lines 117-123: kbd is the decoded KeyboardPacket of kdata
tx_keyboard(kdata, crypto, nv, led, calls, kbd) ==
    IF kbd.rc = 0
    THEN Done(0, crypto, nv, gostt_led_flash_typing(led), <<>>,
              IF s_config.on_text
              THEN <<View(kdata, kbd.out.message, kbd.out.message_len)>>
              ELSE <<>>,
              <<>>,
              calls \o <<Call("gostt_decode_keyboard_packet", kbd.rc),
                         Call("gostt_led_flash_typing", 0)>>)
    ELSE Done(0, crypto, nv, led, <<>>, <<>>, <<>>,
              calls \o <<Call("gostt_decode_keyboard_packet", kbd.rc)>>)

\* lines 114-123: the keyboard branch
tx_keyboard_data(kdata, kdata_len, crypto, nv, led, calls) ==
    tx_keyboard(kdata, crypto, nv, led, calls,
                gostt_decode_keyboard_packet(kdata, kdata_len))

\* lines 124-127: the command branch
tx_command_data(command_type, cdata, cdata_len, crypto, nv, led, e, calls) ==
    Done(0, crypto, on_command_received(command_type, cdata, cdata_len, nv, e.mute_open_ok),
         led, <<>>, <<>>,
         <<[command_type |-> command_type, data |-> cdata, data_len |-> cdata_len]>>,
         calls)

\* a dispatch that prefers the keyboard payload whenever one is present
tx_decoded_keyboard_first(plaintext, crypto, nv, led, e, calls, ed) ==
    IF ed.rc # 0
    THEN Done(0, crypto, nv, gostt_led_flash_error(led), <<>>, <<>>, <<>>,
              calls \o <<Call("gostt_decode_encrypted_data", ed.rc),
                         Call("gostt_led_flash_error", 0)>>)
    ELSE IF ed.out.keyboard_packet_data # NULL
    THEN tx_keyboard_data(View(plaintext, ed.out.keyboard_packet_data,
                               ed.out.keyboard_packet_data_len),
                          ed.out.keyboard_packet_data_len, crypto, nv, led,
                          calls \o <<Call("gostt_decode_encrypted_data", ed.rc)>>)
    ELSE IF ed.out.command_type # U32Zero /\ s_config.on_command
    THEN tx_command_data(ed.out.command_type,
                         View(plaintext, ed.out.command_data, ed.out.command_data_len),
                         ed.out.command_data_len, crypto, nv, led, e,
                         calls \o <<Call("gostt_decode_encrypted_data", ed.rc)>>)
    ELSE Done(0, crypto, nv, led, <<>>, <<>>, <<>>,
              calls \o <<Call("gostt_decode_encrypted_data", ed.rc)>>)

\* lines 108-128: ed is the decoded EncryptedData of plaintext
tx_decoded(plaintext, crypto, nv, led, e, calls, ed) ==
    IF ed.rc # 0
    THEN Done(0, crypto, nv, gostt_led_flash_error(led), <<>>, <<>>, <<>>,
              calls \o <<Call("gostt_decode_encrypted_data", ed.rc),
                         Call("gostt_led_flash_error", 0)>>)
    ELSE IF ed.out.command_type = U32Zero /\ ed.out.keyboard_packet_data # NULL
    THEN tx_keyboard_data(View(plaintext, ed.out.keyboard_packet_data,
                               ed.out.keyboard_packet_data_len),
                          ed.out.keyboard_packet_data_len, crypto, nv, led,
                          calls \o <<Call("gostt_decode_encrypted_data", ed.rc)>>)
    ELSE IF ed.out.command_type # U32Zero /\ s_config.on_command
    THEN tx_command_data(ed.out.command_type,
                         View(plaintext, ed.out.command_data, ed.out.command_data_len),
                         ed.out.command_data_len, crypto, nv, led, e,
                         calls \o <<Call("gostt_decode_encrypted_data", ed.rc)>>)
    ELSE Done(0, crypto, nv, led, <<>>, <<>>, <<>>,
              calls \o <<Call("gostt_decode_encrypted_data", ed.rc)>>)

\* lines 106-129: decode the plaintext and dispatch
tx_dispatch(plaintext, pt_len, crypto, nv, led, e, calls) ==
    tx_decoded(plaintext, crypto, nv, led, e, calls,
               gostt_decode_encrypted_data(plaintext, pt_len))

\* lines 96-104: d is what gostt_crypto_decrypt returned
tx_decrypted(crypto, nv, led, e, calls, d) ==
    IF d.rc < 0
    THEN Done(0, crypto, nv, gostt_led_flash_error(led), <<>>, <<>>, <<>>,
              calls \o <<Call("gostt_crypto_decrypt", d.rc),
                         Call("gostt_led_flash_error", 0)>>)
    ELSE tx_dispatch(d.plaintext, d.rc, crypto, nv, led, e,
                     calls \o <<Call("gostt_crypto_decrypt", d.rc)>>)

\* a handler that drops a packet whose sequence number is zero or absent
tx_data_packet_sequence_required(buf, crypto, nv, led, e, pkt) ==
    IF pkt.rc # 0 \/ pkt.out.packet_num = U32Zero
    THEN Done(0, crypto, nv, gostt_led_flash_error(led), <<>>, <<>>, <<>>,
              <<Call("has_key", 1), Call("gostt_decode_data_packet", pkt.rc),
                Call("gostt_led_flash_error", 0)>>)
    ELSE tx_decrypted(crypto, nv, led, e,
             <<Call("has_key", 1), Call("gostt_decode_data_packet", pkt.rc)>>,
             gostt_crypto_decrypt(crypto, pkt.out.iv, pkt.out.tag,
                 View(buf, pkt.out.encrypted_data, pkt.out.encrypted_data_len),
                 pkt.out.encrypted_data_len, e.dfault))

\* lines 87-100: pkt is the decoded DataPacket of buf
tx_data_packet(buf, crypto, nv, led, e, pkt) ==
    IF pkt.rc # 0
    THEN Done(0, crypto, nv, gostt_led_flash_error(led), <<>>, <<>>, <<>>,
              <<Call("has_key", 1), Call("gostt_decode_data_packet", pkt.rc),
                Call("gostt_led_flash_error", 0)>>)
    ELSE tx_decrypted(crypto, nv, led, e,
             <<Call("has_key", 1), Call("gostt_decode_data_packet", pkt.rc)>>,
             gostt_crypto_decrypt(crypto, pkt.out.iv, pkt.out.tag,
                 View(buf, pkt.out.encrypted_data, pkt.out.encrypted_data_len),
                 pkt.out.encrypted_data_len, e.dfault))

\* an encrypted-command path that signals error when no key is present
tx_command_flash_without_key(buf, len, crypto, nv, led, e) ==
    IF ~crypto.has_key
    THEN Done(0, crypto, nv, gostt_led_flash_error(led), <<>>, <<>>, <<>>,
              <<Call("has_key", 0), Call("gostt_led_flash_error", 0)>>)
    ELSE tx_data_packet(buf, crypto, nv, led, e, gostt_decode_data_packet(buf, len))

\* lines 81-104: the encrypted command; the first entry of calls records the
\* outcome of the has_key test of line 82
tx_command(buf, len, crypto, nv, led, e) ==
    IF ~crypto.has_key
    THEN Done(0, crypto, nv, led, <<>>, <<>>, <<>>, <<Call("has_key", 0)>>)
    ELSE tx_data_packet(buf, crypto, nv, led, e, gostt_decode_data_packet(buf, len))

\* a pairing detection that looks at the length only
is_pairing_request_len_only(buf, len) == len = GOSTT_COMPRESSED_PUBKEY_LEN

\* the pairing detection of lines 51-52
is_pairing_request(buf, len) ==
    len = GOSTT_COMPRESSED_PUBKEY_LEN /\ (buf[1] = 2 \/ buf[1] = 3)

\* a write handler that takes a write of any length
tx_char_write_cb_any_length(om, crypto, nv, conn_handle, led, e) ==
    LET len == Len(om) IN
    IF len = 0 THEN Done(0, crypto, nv, led, <<>>, <<>>, <<>>, <<>>)
    ELSE IF is_pairing_request(om, len)
    THEN tx_pairing(om, crypto, nv, conn_handle, led, e)
    ELSE tx_command(om, len, crypto, nv, led, e)

\* the TX characteristic write handler, run to completion on the host task
tx_char_write_cb(om, crypto, nv, conn_handle, led, e) ==
    LET len == Len(om) IN
    IF len = 0 THEN Done(0, crypto, nv, led, <<>>, <<>>, <<>>, <<>>)
    ELSE IF len > TX_BUF_SIZE
    THEN Done(BLE_ATT_ERR_INVALID_ATTR_VALUE_LEN, crypto, nv, led, <<>>, <<>>, <<>>, <<>>)
    ELSE IF is_pairing_request(om, len)
    THEN tx_pairing(om, crypto, nv, conn_handle, led, e)
    ELSE tx_command(om, len, crypto, nv, led, e)

\* ----------------------------------------------------------- what the peer sends
LenField(num, bytes) == <<num * 8 + 2, Len(bytes)>> \o bytes

VarField(num, v) == <<num * 8, v>>

DataPacketBytes(iv, tag, ct, seq) ==
    LenField(1, iv) \o LenField(2, tag) \o LenField(3, ct) \o VarField(4, seq)

\* a DataPacket the companion app seals under key
Seal(key, iv, pt, seq) ==
    LET ct == GcmEncryptBytes(key, iv, pt)
    IN DataPacketBytes(iv, GcmTag(key, iv, ct), ct, seq)

KbdPacket(msg) == LenField(1, msg) \o VarField(2, Len(msg))

PeerIv == <<1>> \o Zeros(GOSTT_IV_LEN - 1)

Hi == <<104, 105>>

PtText == LenField(1, KbdPacket(Hi))

PtToggle == VarField(2, GOSTT_CMD_MUTE_TOGGLE)

PtConfigure == VarField(2, GOSTT_CMD_MUTE_CONFIGURE) \o LenField(3, <<0, 226, 0>>)

PtCommandAndText == LenField(1, KbdPacket(Hi)) \o VarField(2, 1) \o LenField(3, <<9>>)

PtNothing == VarField(2, 0)

PtEmptyKeyboard == LenField(1, <<>>)

PtBadWireType == <<13, 0, 0, 0, 0>>

PtBadKeyboard == LenField(1, <<10, 5, 104>>)

Plaintexts ==
    {PtText, PtToggle, PtConfigure, PtCommandAndText, PtNothing, PtEmptyKeyboard,
     PtBadWireType, PtBadKeyboard}

FirstKey == DeriveKey(1, Point(2, 1))

\* pairing requests: a valid point in both parities and an off-curve one
PairingWrites == {Point(2, 1), Point(3, 1), Point(2, 200)}

\* authentic packets, under every key the session can hold
SealedWrites ==
    {Seal(FirstKey, PeerIv, pt, 1) : pt \in Plaintexts}
    \cup {Seal(k, PeerIv, PtText, 2) : k \in DerivedKeys \cup {KeyGarbage}}

\* a packet without field 1, sealed under the all-zero iv
NoIvWrite ==
    LET ct == GcmEncryptBytes(FirstKey, Zeros(GOSTT_IV_LEN), PtText)
    IN LenField(2, GcmTag(FirstKey, Zeros(GOSTT_IV_LEN), ct)) \o LenField(3, ct)

\* packets that must not authenticate or decode
BadWrites ==
    LET ct == GcmEncryptBytes(FirstKey, PeerIv, PtText)
        ok == Seal(FirstKey, PeerIv, PtText, 1)
    IN {DataPacketBytes(PeerIv, Zeros(GOSTT_TAG_LEN), ct, 1),
        DataPacketBytes(PeerIv, GcmTag(FirstKey, PeerIv, ct), <<>>, 1),
        LenField(1, SubSeq(PeerIv, 1, 11)) \o LenField(2, GcmTag(FirstKey, PeerIv, ct))
            \o LenField(3, ct),
        SubSeq(ok, 1, Len(ok) - 3),
        Point(4, 1), SubSeq(Point(2, 1), 1, 32), Point(2, 1) \o <<0>>}

CommandWrites == SealedWrites \cup BadWrites \cup {NoIvWrite}

\* writes the handler refuses to look at
EdgeWrites == {<<>>, Zeros(TX_BUF_SIZE + 1)}

\* ---------------------------------------------------------------- the state
VARIABLES
    phase,              \* "boot", "started" (BLE server initialised), "synced", "halted"
    s_crypto,           \* main.c: the gostt_crypto_ctx_t
    nvs,                \* the persistent store
    link,               \* the stack's connection: its handle, or BLE_HS_CONN_HANDLE_NONE
    advertising,        \* the stack is advertising
    s_conn_handle,      \* ble_server.c statics
    s_connected,
    s_keepalive_timer,  \* "NULL", "stopped" or "running"
    led,                \* led.c statics
    last,               \* the event being handled and what its handler did; "idle"
                        \* while the tasks wait for the next event
    tasks,              \* where the timer task and the host task stand inside their
                        \* handlers, when the handlers are followed line by line
    codec               \* a buffer handed to a proto.c function, and the result

vars == <<phase, s_crypto, nvs, link, advertising, s_conn_handle, s_connected,
          s_keepalive_timer, led, last, tasks, codec>>

Handles == 0..MaxHandle

\* One connection is up at a time and the handlers compare its handle with
\* BLE_HS_CONN_HANDLE_NONE only: where handlers run whole, every connection
\* gets the first handle.
FirstHandle == CHOOSE h \in Handles : \A g \in Handles : h <= g

\* the session, the store, the led state, the recorded connection handle and the
\* connection a handler found when it was entered
Pre(crypto, nv, led_state, conn_handle) ==
    [crypto |-> crypto, nvs |-> nv, led |-> led_state, conn |-> conn_handle,
     connected |-> s_connected, timer |-> s_keepalive_timer,
     advertising |-> advertising, link |-> link]

NoPre ==
    [crypto |-> ctx_zero, nvs |-> nvs_empty, led |-> "OFF",
     conn |-> BLE_HS_CONN_HANDLE_NONE, connected |-> FALSE, timer |-> "NULL",
     advertising |-> FALSE, link |-> BLE_HS_CONN_HANDLE_NONE]

\* what the handler entered now finds
Entry == Pre(s_crypto, nvs, led.s_state, s_conn_handle)

Last(op, om, pre, rc, notified, text, command, calls) ==
    [op |-> op, om |-> om, pre |-> pre, rc |-> rc, notified |-> notified, text |-> text,
     command |-> command, calls |-> calls]

Quiet(op) == Last(op, <<>>, NoPre, 0, <<>>, <<>>, <<>>, <<>>)

\* both tasks outside their handlers
tasks_idle ==
    [timer |-> "idle", timer_seen |-> BLE_HS_CONN_HANDLE_NONE,
     timer_arg |-> BLE_HS_CONN_HANDLE_NONE, timer_link |-> BLE_HS_CONN_HANDLE_NONE,
     host |-> "idle", host_arg |-> BLE_HS_CONN_HANDLE_NONE]

\* no buffer under decode
codec_idle == [op |-> "none", fields |-> <<>>, buf |-> <<>>, rc |-> 0, out |-> <<>>]

\* no handler is executing
Idle == last.op = "idle"

\* the store a device comes up with: factory fresh, or left by an earlier pairing
InitialStores ==
    {nvs_empty,
     [nvs_empty EXCEPT !.aes_key = Blob(GOSTT_AES_KEY_LEN, FirstKey),
                       !.peer_pub = Blob(GOSTT_COMPRESSED_PUBKEY_LEN, Point(2, 1))]}

\* power-on: statics hold their initialisers
Statics ==
    /\ phase = "boot"
    /\ s_crypto = ctx_zero
    /\ link = BLE_HS_CONN_HANDLE_NONE
    /\ advertising = FALSE
    /\ s_conn_handle = BLE_HS_CONN_HANDLE_NONE
    /\ s_connected = FALSE
    /\ s_keepalive_timer = "NULL"
    /\ led = led_init

Init ==
    /\ Statics
    /\ nvs \in InitialStores
    /\ last = Quiet("idle")
    /\ tasks = tasks_idle
    /\ codec = codec_idle

\* start_advertising(): the led after it
start_advertising(l) == gostt_led_set(l, "ADVERTISING")

\* ble_gap_adv_start (line 239): 0, or an error code that start_advertising drops
ble_gap_adv_start(adv_ok) == IF adv_ok THEN 0 ELSE 1

\* the calls of start_advertising
start_advertising_calls(adv_ok) ==
    <<Call("ble_gap_adv_start", ble_gap_adv_start(adv_ok)),
      Call("start_advertising", 0)>>

\* app_main with the BOOT button held for GOSTT_FACTORY_RESET_MS: erase, restart
FactoryReset ==
    /\ Idle /\ phase = "boot"
    /\ \E open_ok \in BOOLEAN :
           /\ nvs' = gostt_crypto_erase(s_crypto, nvs, open_ok).nvs
           /\ s_crypto' = gostt_crypto_erase(s_crypto, nvs, open_ok).ctx
    /\ last' = Last("factory_reset", <<>>, Entry, 0, <<>>, <<>>, <<>>,
                     <<Call("gostt_crypto_erase", 0)>>)
    /\ UNCHANGED <<phase, link, advertising, s_conn_handle, s_connected,
                   s_keepalive_timer, led, tasks, codec>>

\* app_main without factory reset
AppMain ==
    /\ Idle /\ phase = "boot"
    /\ \E psa_ok \in BOOLEAN, fault \in {"none", "nvs_open"}, usb_ok \in BOOLEAN,
          ble_ok \in BOOLEAN, timer_ok \in BOOLEAN :
           LET ci == gostt_crypto_init(nvs, psa_ok, fault) IN
           /\ s_crypto' = ci.ctx
           /\ last' = Last("app_main", <<>>, Entry, 0, <<>>, <<>>, <<>>,
                            <<Call("gostt_crypto_init", ci.rc)>>)
           /\ IF ~usb_ok
              THEN /\ led' = gostt_led_set(gostt_led_set(led, "OFF"), "ERROR")
                   /\ phase' = "halted"
                   /\ s_keepalive_timer' = s_keepalive_timer
              ELSE IF ~ble_ok
              THEN /\ led' = gostt_led_set(gostt_led_set(led, "OFF"), "ERROR")
                   /\ phase' = "halted"
                   /\ s_keepalive_timer' = s_keepalive_timer
              ELSE /\ led' = gostt_led_set(led, "OFF")
                   /\ phase' = "started"
                   /\ s_keepalive_timer' = IF timer_ok THEN "stopped" ELSE "NULL"
    /\ UNCHANGED <<nvs, link, advertising, s_conn_handle, s_connected, tasks, codec>>

\* on_sync: the host is up
OnSync ==
    /\ Idle /\ phase = "started"
    /\ phase' = "synced"
    /\ led' = start_advertising(led)
    /\ \E adv_ok \in BOOLEAN :
           /\ advertising' = (ble_gap_adv_start(adv_ok) = 0)
           /\ last' = Last("on_sync", <<>>, Entry, 0, <<>>, <<>>, <<>>,
                            start_advertising_calls(adv_ok))
    /\ UNCHANGED <<s_crypto, nvs, link, s_conn_handle, s_connected, s_keepalive_timer,
                   tasks, codec>>

\* ble_gap_event, BLE_GAP_EVENT_CONNECT with connect.status and conn_handle h
gap_event_connect(status, h, adv_ok) ==
    IF status = 0
    THEN /\ link' = h
         /\ advertising' = FALSE
         /\ s_conn_handle' = h
         /\ s_connected' = TRUE
         /\ led' = gostt_led_set(led, IF s_crypto.has_key THEN "PAIRED" ELSE "CONNECTED")
         /\ s_keepalive_timer' = IF s_keepalive_timer # "NULL" THEN "running" ELSE "NULL"
    ELSE /\ advertising' = (ble_gap_adv_start(adv_ok) = 0)
         /\ led' = start_advertising(led)
         /\ UNCHANGED <<link, s_conn_handle, s_connected, s_keepalive_timer>>

\* the calls of the connect branch, in order
gap_event_connect_calls(status, timer, adv_ok) ==
    IF status = 0
    THEN <<Call("gostt_led_set", 0)>>
         \o (IF timer # "NULL" THEN <<Call("xTimerStart", 0)>> ELSE <<>>)
    ELSE start_advertising_calls(adv_ok)

\* a disconnect branch that leaves the keepalive timer alone
gap_event_disconnect_timer_kept(adv_ok) ==
    /\ link' = BLE_HS_CONN_HANDLE_NONE
    /\ s_conn_handle' = BLE_HS_CONN_HANDLE_NONE
    /\ s_connected' = FALSE
    /\ s_keepalive_timer' = s_keepalive_timer
    /\ advertising' = (ble_gap_adv_start(adv_ok) = 0)
    /\ led' = start_advertising(led)

\* ble_gap_event, BLE_GAP_EVENT_DISCONNECT
gap_event_disconnect(adv_ok) ==
    /\ link' = BLE_HS_CONN_HANDLE_NONE
    /\ s_conn_handle' = BLE_HS_CONN_HANDLE_NONE
    /\ s_connected' = FALSE
    /\ s_keepalive_timer' = IF s_keepalive_timer # "NULL" THEN "stopped" ELSE "NULL"
    /\ advertising' = (ble_gap_adv_start(adv_ok) = 0)
    /\ led' = start_advertising(led)

\* the calls of the disconnect branch, in order
gap_event_disconnect_calls(timer, adv_ok) ==
    (IF timer # "NULL" THEN <<Call("xTimerStop", 0)>> ELSE <<>>)
    \o start_advertising_calls(adv_ok)

\* a connection attempt completes while the device advertises
GapConnect ==
    /\ Idle /\ phase = "synced" /\ advertising /\ link = BLE_HS_CONN_HANDLE_NONE
    /\ \E status \in {0, 1}, adv_ok \in BOOLEAN :
           /\ gap_event_connect(status, FirstHandle, adv_ok)
           /\ last' = Last(IF status = 0 THEN "connect" ELSE "connect_failed", <<>>,
                            Entry, 0, <<>>, <<>>, <<>>,
                            gap_event_connect_calls(status, s_keepalive_timer, adv_ok))
    /\ UNCHANGED <<phase, s_crypto, nvs, tasks, codec>>

\* the connection drops
GapDisconnect ==
    /\ Idle /\ link # BLE_HS_CONN_HANDLE_NONE
    /\ \E adv_ok \in BOOLEAN :
           /\ gap_event_disconnect(adv_ok)
           /\ last' = Last("disconnect", <<>>, Entry, 0, <<>>, <<>>, <<>>,
                            gap_event_disconnect_calls(s_keepalive_timer, adv_ok))
    /\ UNCHANGED <<phase, s_crypto, nvs, tasks, codec>>

\* a write handler that forgets the connection when it signals error
Apply_dropping_link(op, om, r) ==
    /\ s_crypto' = r.crypto
    /\ nvs' = r.nvs
    /\ led' = r.led
    /\ last' = Last(op, om, Entry, r.rc, r.notified, r.text, r.command, r.calls)
    /\ s_conn_handle' = IF r.led.s_flash_error THEN BLE_HS_CONN_HANDLE_NONE
                        ELSE s_conn_handle
    /\ UNCHANGED <<phase, link, advertising, s_connected, s_keepalive_timer, tasks,
                   codec>>

Apply(op, om, r) ==
    /\ s_crypto' = r.crypto
    /\ nvs' = r.nvs
    /\ led' = r.led
    /\ last' = Last(op, om, Entry, r.rc, r.notified, r.text, r.command, r.calls)
    /\ UNCHANGED <<phase, link, advertising, s_conn_handle, s_connected,
                   s_keepalive_timer, tasks, codec>>

\* a write to the TX characteristic that is a pairing request
TxWritePairing ==
    /\ Idle /\ link # BLE_HS_CONN_HANDLE_NONE
    /\ \E om \in PairingWrites, e \in PairEnvs :
           Apply("write", om, tx_char_write_cb(om, s_crypto, nvs, s_conn_handle, led, e))

\* any other write to the TX characteristic
TxWriteCommand ==
    /\ Idle /\ link # BLE_HS_CONN_HANDLE_NONE
    /\ \E om \in CommandWrites \cup EdgeWrites, e \in CommandEnvs :
           Apply("write", om, tx_char_write_cb(om, s_crypto, nvs, s_conn_handle, led, e))

\* keepalive_timer_cb, run to completion
keepalive_timer_cb(conn_handle, mbuf_ok) ==
    IF conn_handle = BLE_HS_CONN_HANDLE_NONE THEN <<>>
    ELSE LET r == gostt_encode_response_packet(KEEPALIVE_BUF_SIZE, GOSTT_RESP_KEEPALIVE,
                      GOSTT_PEER_UNKNOWN, NullPtr, 0)
         IN IF r.rc > 0 /\ mbuf_ok
            THEN <<[conn |-> conn_handle, bytes |-> r.bytes]>> ELSE <<>>

KeepaliveTimer ==
    /\ Idle /\ s_keepalive_timer = "running"
    /\ \E mbuf_ok \in BOOLEAN :
           last' = Last("keepalive", <<>>, Entry, 0,
                        keepalive_timer_cb(s_conn_handle, mbuf_ok), <<>>, <<>>, <<>>)
    /\ UNCHANGED <<phase, s_crypto, nvs, link, advertising, s_conn_handle, s_connected,
                   s_keepalive_timer, led, tasks, codec>>

\* led_task shows and clears the pending flashes; it runs on a task of its own,
\* and a pass that falls inside a handler is taken after the handler
LedTask ==
    /\ Idle
    /\ led.s_flash_typing \/ led.s_flash_error
    /\ led' = led_task(led)
    /\ UNCHANGED <<phase, s_crypto, nvs, link, advertising, s_conn_handle, s_connected,
                   s_keepalive_timer, last, tasks, codec>>

\* power cycle: the statics are re-initialised, the store survives
Reboot ==
    /\ Idle /\ phase # "boot"
    /\ phase' = "boot"
    /\ s_crypto' = ctx_zero
    /\ link' = BLE_HS_CONN_HANDLE_NONE
    /\ advertising' = FALSE
    /\ s_conn_handle' = BLE_HS_CONN_HANDLE_NONE
    /\ s_connected' = FALSE
    /\ s_keepalive_timer' = "NULL"
    /\ led' = led_init
    /\ last' = Quiet("power_on")
    /\ UNCHANGED <<nvs, tasks, codec>>

\* the handler has returned; the tasks wait for the next event
HandlerReturn ==
    /\ ~Idle
    /\ last' = Quiet("idle")
    /\ UNCHANGED <<phase, s_crypto, nvs, link, advertising, s_conn_handle, s_connected,
                   s_keepalive_timer, led, tasks, codec>>

Next ==
    \/ FactoryReset
    \/ AppMain
    \/ OnSync
    \/ GapConnect
    \/ GapDisconnect
    \/ TxWritePairing
    \/ TxWriteCommand
    \/ KeepaliveTimer
    \/ LedTask
    \/ Reboot
    \/ HandlerReturn

Spec == Init /\ [][Next]_vars


\* ------------------------------------------------ the two tasks, line by line
\* The FreeRTOS timer service task runs keepalive_timer_cb; the NimBLE host task
\* runs ble_gap_event and tx_char_write_cb.  Each handler is followed from one
\* read of shared state or call into the stack to the next, and the scheduler
\* may switch tasks between any two of them.  The device has booted and synced.
InitConc ==
    /\ phase = "synced"
    /\ nvs \in InitialStores
    /\ s_crypto = gostt_crypto_init(nvs, TRUE, "none").ctx
    /\ link = BLE_HS_CONN_HANDLE_NONE
    /\ advertising = TRUE
    /\ s_conn_handle = BLE_HS_CONN_HANDLE_NONE
    /\ s_connected = FALSE
    /\ s_keepalive_timer = "stopped"
    /\ led = start_advertising(gostt_led_set(led_init, "OFF"))
    /\ last = Quiet("idle")
    /\ tasks = tasks_idle
    /\ codec = codec_idle

\* host task: ble_gap_event, BLE_GAP_EVENT_CONNECT
HostConnect ==
    /\ tasks.host = "idle" /\ advertising /\ link = BLE_HS_CONN_HANDLE_NONE
    /\ \E status \in {0, 1}, h \in Handles, adv_ok \in BOOLEAN :
           gap_event_connect(status, h, adv_ok)
    /\ UNCHANGED <<phase, s_crypto, nvs, last, tasks, codec>>

\* host task: ble_gap_event, BLE_GAP_EVENT_DISCONNECT
HostDisconnect ==
    /\ tasks.host = "idle" /\ link # BLE_HS_CONN_HANDLE_NONE
    /\ \E adv_ok \in BOOLEAN : gap_event_disconnect(adv_ok)
    /\ UNCHANGED <<phase, s_crypto, nvs, last, tasks, codec>>

\* host task: tx_char_write_cb on a pairing request, up to the call of line 72
\* when the response is sent, to its return otherwise
HostPairing ==
    /\ tasks.host = "idle" /\ link # BLE_HS_CONN_HANDLE_NONE
    /\ \E om \in PairingWrites, e \in PairEnvs :
           LET r == tx_char_write_cb(om, s_crypto, nvs, s_conn_handle, led, e) IN
           /\ s_crypto' = r.crypto
           /\ nvs' = r.nvs
           /\ IF r.notified # <<>>
              THEN /\ tasks' = [tasks EXCEPT !.host = "notify",
                                             !.host_arg = r.notified[1].conn]
                   /\ led' = led
              ELSE /\ tasks' = tasks
                   /\ led' = r.led
    /\ UNCHANGED <<phase, link, advertising, s_conn_handle, s_connected,
                   s_keepalive_timer, last, codec>>

\* host task: ble_gatts_notify_custom of line 72 returns; lines 76-78
HostPairingSent ==
    /\ tasks.host = "notify"
    /\ tasks' = [tasks EXCEPT !.host = "idle", !.host_arg = BLE_HS_CONN_HANDLE_NONE]
    /\ led' = gostt_led_set(led, "PAIRED")
    /\ UNCHANGED <<phase, s_crypto, nvs, link, advertising, s_conn_handle, s_connected,
                   s_keepalive_timer, last, codec>>

\* timer task: keepalive_timer_cb, the test of line 198
TimerCheck ==
    /\ tasks.timer = "idle" /\ s_keepalive_timer = "running"
    /\ tasks' = IF s_conn_handle = BLE_HS_CONN_HANDLE_NONE THEN tasks
                ELSE [tasks EXCEPT !.timer = "encode", !.timer_seen = s_conn_handle]
    /\ UNCHANGED <<phase, s_crypto, nvs, link, advertising, s_conn_handle, s_connected,
                   s_keepalive_timer, led, last, codec>>

\* timer task: lines 200-207, the packet is encoded and an mbuf allocated
TimerEncode ==
    /\ tasks.timer = "encode"
    /\ \E mbuf_ok \in BOOLEAN :
           tasks' = IF keepalive_timer_cb(tasks.timer_seen, mbuf_ok) # <<>>
                    THEN [tasks EXCEPT !.timer = "mbuf"]
                    ELSE [tasks EXCEPT !.timer = "idle",
                                       !.timer_seen = BLE_HS_CONN_HANDLE_NONE]
    /\ UNCHANGED <<phase, s_crypto, nvs, link, advertising, s_conn_handle, s_connected,
                   s_keepalive_timer, led, last, codec>>

\* timer task: the call of line 208.  s_conn_handle is a plain static written by
\* the host task: the argument is its value now, or the value read at line 198
\* if the compiler kept it
TimerNotify ==
    /\ tasks.timer = "mbuf"
    /\ \E arg \in {s_conn_handle, tasks.timer_seen} :
           tasks' = [tasks EXCEPT !.timer = "notify", !.timer_arg = arg,
                                  !.timer_link = link]
    /\ UNCHANGED <<phase, s_crypto, nvs, link, advertising, s_conn_handle, s_connected,
                   s_keepalive_timer, led, last, codec>>

\* timer task: ble_gatts_notify_custom of line 208 returns, and the callback
TimerNotifyReturn ==
    /\ tasks.timer = "notify"
    /\ tasks' = [tasks EXCEPT !.timer = "idle",
                              !.timer_seen = BLE_HS_CONN_HANDLE_NONE,
                              !.timer_arg = BLE_HS_CONN_HANDLE_NONE,
                              !.timer_link = BLE_HS_CONN_HANDLE_NONE]
    /\ UNCHANGED <<phase, s_crypto, nvs, link, advertising, s_conn_handle, s_connected,
                   s_keepalive_timer, led, last, codec>>

NextConc ==
    \/ HostConnect
    \/ HostDisconnect
    \/ HostPairing
    \/ HostPairingSent
    \/ TimerCheck
    \/ TimerEncode
    \/ TimerNotify
    \/ TimerNotifyReturn

SpecConc == InitConc /\ [][NextConc]_vars

\* ------------------------------------------------------- the codec on its own
\* fields a DataPacket buffer is put together from
MaxFields == 3

CodecFieldNames ==
    {"iv", "iv_short", "tag", "tag_long", "payload", "packet_num", "unknown", "group"}

CodecField(name) ==
    CASE name = "iv"         -> LenField(1, PeerIv)
      [] name = "iv_short"   -> LenField(1, Zeros(GOSTT_IV_LEN - 1))
      [] name = "tag"        -> LenField(2, Zeros(GOSTT_TAG_LEN))
      [] name = "tag_long"   -> LenField(2, Zeros(GOSTT_TAG_LEN + 1))
      [] name = "payload"    -> LenField(3, <<1, 2>>)
      [] name = "packet_num" -> VarField(4, 7)
      [] name = "unknown"    -> VarField(9, 1)
      [] name = "group"      -> <<11>>

RECURSIVE CodecBytes(_)
CodecBytes(fields) ==
    IF fields = <<>> THEN <<>>
    ELSE CodecField(Head(fields)) \o CodecBytes(Tail(fields))

CodecInputs == UNION {[1..n -> CodecFieldNames] : n \in 0..MaxFields}

InitCodec ==
    /\ Statics
    /\ nvs = nvs_empty
    /\ last = Quiet("idle")
    /\ tasks = tasks_idle
    /\ codec \in {[op |-> "input", fields |-> f, buf |-> CodecBytes(f), rc |-> 0,
                   out |-> data_packet_zero] : f \in CodecInputs}

\* gostt_decode_data_packet(buf, len, &out) on the buffer
DecodeDataPacket ==
    /\ codec.op = "input"
    /\ LET r == gostt_decode_data_packet(codec.buf, Len(codec.buf))
       IN codec' = [codec EXCEPT !.op = "gostt_decode_data_packet",
                                 !.rc = r.rc, !.out = r.out]
    /\ UNCHANGED <<phase, s_crypto, nvs, link, advertising, s_conn_handle, s_connected,
                   s_keepalive_timer, led, last, tasks>>

NextCodec == DecodeDataPacket

SpecCodec == InitCodec /\ [][NextCodec]_vars

\* ------------------------------------------------------- the session on its own
\* gostt_crypto_init and gostt_crypto_erase, called in any order on every session
\* and store they can be entered with
CryptoSessions ==
    {ctx_zero,
     [aes_key |-> FirstKey, has_key |-> TRUE, peer_pubkey |-> Point(2, 1)],
     [ctx_zero EXCEPT !.aes_key = KeyGarbage]}

\* a stored mute configuration
MuteBlob == Blob(3, <<GOSTT_MUTE_CONSUMER_CONTROL, 226, 0>>)

\* stores: empty, left by a pairing (with and without a mute configuration), a
\* mute configuration alone, and key blobs one byte short and one byte long
CryptoStores ==
    LET keyed == [nvs_empty EXCEPT
                      !.aes_key = Blob(GOSTT_AES_KEY_LEN, FirstKey),
                      !.peer_pub = Blob(GOSTT_COMPRESSED_PUBKEY_LEN, Point(2, 1))]
    IN {nvs_empty, keyed,
        [keyed EXCEPT !.mute_cfg = MuteBlob],
        [nvs_empty EXCEPT !.mute_cfg = MuteBlob],
        [keyed EXCEPT !.aes_key = Blob(GOSTT_AES_KEY_LEN - 1, FirstKey)],
        [keyed EXCEPT !.aes_key = Blob(GOSTT_AES_KEY_LEN + 1, FirstKey)]}

InitCrypto ==
    /\ phase = "boot"
    /\ s_crypto \in CryptoSessions
    /\ nvs \in CryptoStores
    /\ link = BLE_HS_CONN_HANDLE_NONE
    /\ advertising = FALSE
    /\ s_conn_handle = BLE_HS_CONN_HANDLE_NONE
    /\ s_connected = FALSE
    /\ s_keepalive_timer = "NULL"
    /\ led = led_init
    /\ last = Quiet("idle")
    /\ tasks = tasks_idle
    /\ codec = codec_idle

\* the library and store calls of gostt_crypto_init, in order
gostt_crypto_init_calls(psa_ok, fault) ==
    IF ~psa_ok THEN <<Call("psa_crypto_init", -1)>>
    ELSE <<Call("psa_crypto_init", 0),
           Call("nvs_open", IF fault = "nvs_open" THEN -1 ELSE 0)>>

\* gostt_crypto_init(&ctx)
CryptoInit ==
    /\ \E psa_ok \in BOOLEAN, fault \in {"none", "nvs_open"} :
           /\ s_crypto' = gostt_crypto_init(nvs, psa_ok, fault).ctx
           /\ last' = Last("gostt_crypto_init", <<>>, Entry,
                           gostt_crypto_init(nvs, psa_ok, fault).rc, <<>>, <<>>, <<>>,
                           gostt_crypto_init_calls(psa_ok, fault))
    /\ UNCHANGED <<phase, nvs, link, advertising, s_conn_handle, s_connected,
                   s_keepalive_timer, led, tasks, codec>>

\* the erase calls made in succession up to now: the outcome of nvs_open in the
\* call before, if the call before was an erase, and in this one
erase_calls(open_ok) ==
    (IF last.op \in {"gostt_crypto_erase", "gostt_crypto_erase_again"}
     THEN <<last.calls[Len(last.calls)]>> ELSE <<>>)
    \o <<Call("nvs_open", IF open_ok THEN 0 ELSE -1)>>

\* gostt_crypto_erase(&ctx); "again" when the call before was an erase too
CryptoErase ==
    /\ \E open_ok \in BOOLEAN :
           /\ s_crypto' = gostt_crypto_erase(s_crypto, nvs, open_ok).ctx
           /\ nvs' = gostt_crypto_erase(s_crypto, nvs, open_ok).nvs
           /\ last' = Last(IF last.op \in {"gostt_crypto_erase",
                                           "gostt_crypto_erase_again"}
                           THEN "gostt_crypto_erase_again" ELSE "gostt_crypto_erase",
                           <<>>, Entry, gostt_crypto_erase(s_crypto, nvs, open_ok).rc,
                           <<>>, <<>>, <<>>, erase_calls(open_ok))
    /\ UNCHANGED <<phase, link, advertising, s_conn_handle, s_connected,
                   s_keepalive_timer, led, tasks, codec>>

NextCrypto ==
    \/ CryptoInit
    \/ CryptoErase

SpecCrypto == InitCrypto /\ [][NextCrypto]_vars

\* ------------------------------------------------ the three decoders on their own
\* items a message buffer is put together from
MaxItems == 3

\* n bytes with the continuation bit set and no value bits
Cont(n) == [i \in 1..n |-> 128]

\* the fields of each message, as the decoder's field map has them
WireKnown(msg) ==
    CASE msg = "data_packet"     -> {"iv", "tag", "bytes3", "var4"}
      [] msg = "keyboard_packet" -> {"bytes1", "var2"}
      [] msg = "encrypted_data"  -> {"bytes1", "var2", "bytes3"}

\* fields of no message: number 9, number 16 (a two-byte tag), number 2^32 + 1
WireUnknown == {"unknown_var", "unknown_far", "wrapped1"}

\* unsupported wire types, varints that never end, varints the buffer ends in,
\* and length-delimited fields declaring 200, 2^16 + 1, 2^32 + 1 and 2^64 - 1
\* bytes, or one byte more than is left
WireBad ==
    {"fixed64", "group_far",
     "long_tag", "long_val", "long_len", "cut_tag", "cut_val", "cut_len",
     "over_200", "over_64k", "over_4g", "over_max", "over_by_one"}

WireItemNames == {"iv", "tag", "bytes1", "bytes3", "var2", "var4"} \cup WireUnknown \cup WireBad

\* g with item b put in before its p-th item, or at its end
WireInsert(g, p, b) ==
    IF p > Len(g) THEN Append(g, b)
    ELSE SubSeq(g, 1, p - 1) \o <<b>> \o SubSeq(g, p, Len(g))

\* sequences of up to n fields of msg and unknown fields, in any order
WireWellFormed(msg, n) == UNION {[1..k -> WireKnown(msg) \cup WireUnknown] : k \in 0..n}

WireItem(name) ==
    CASE name = "iv"          -> LenField(1, <<170>> \o Zeros(GOSTT_IV_LEN - 1))
      [] name = "tag"         -> LenField(2, <<187>> \o Zeros(GOSTT_TAG_LEN - 1))
      [] name = "bytes1"      -> LenField(1, Hi)
      [] name = "bytes3"      -> LenField(3, <<1, 2, 3>>)
      [] name = "var2"        -> VarField(2, 5)
      [] name = "var4"        -> VarField(4, 42)
      [] name = "unknown_var" -> VarField(9, 1)
      [] name = "unknown_far" -> <<130, 1, 1, 8>>
      [] name = "wrapped1"    -> <<138, 128, 128, 128, 128, 1, 1, 7>>
      [] name = "fixed64"     -> <<9>> \o Zeros(8)
      [] name = "group_far"   -> <<131, 1>>
      [] name = "long_tag"    -> Cont(10) \o <<1>>
      [] name = "long_val"    -> <<16>> \o Cont(10) \o <<1>>
      [] name = "long_len"    -> <<10>> \o Cont(10) \o <<1>>
      [] name = "cut_tag"     -> Cont(1)
      [] name = "cut_val"     -> <<16>> \o Cont(2)
      [] name = "cut_len"     -> <<10>> \o Cont(1)
      [] name = "over_200"    -> <<26, 200, 1, 1, 2>>
      [] name = "over_64k"    -> <<26, 129, 128, 4, 9>>
      [] name = "over_4g"     -> <<26, 129, 128, 128, 128, 16, 9>>
      [] name = "over_max"    -> <<26>> \o [i \in 1..9 |-> 255] \o <<1, 9>>
      [] name = "over_by_one" -> <<26, 3, 1, 2>>

RECURSIVE WireBytes(_)
WireBytes(items) ==
    IF items = <<>> THEN <<>>
    ELSE WireItem(Head(items)) \o WireBytes(Tail(items))

\* the decode vectors of test_proto.c
WireVectors ==
    [keyboard_hello |-> [msg |-> "keyboard_packet",
                         buf |-> <<10, 5, 104, 101, 108, 108, 111, 16, 5>>],
     keyboard_empty |-> [msg |-> "keyboard_packet", buf |-> <<10, 0, 16, 0>>],
     data_packet    |-> [msg |-> "data_packet",
                         buf |-> WireBytes(<<"iv", "tag", "bytes3", "var4">>)],
     encrypted_data |-> [msg |-> "encrypted_data",
                         buf |-> <<10, 9, 10, 5, 104, 101, 108, 108, 111, 16, 5>>]]

\* a call of decoder msg on buf; fields are the items buf was put together
\* from, or vector names the test vector buf is the first `kept` bytes of
WireCall(msg, fields, buf, vector, kept) ==
    [op |-> "input", msg |-> msg, fields |-> fields, buf |-> buf,
     vector |-> vector, kept |-> kept, rc |-> 0, out |-> <<>>, pos |-> 0, heads |-> <<>>]

\* decoder msg is given a buffer put together from the items fields
WireGiven(msg, fields) == codec = WireCall(msg, fields, WireBytes(fields), "none", 0)

\* the calls: each decoder on well-formed item sequences, on well-formed ones
\* with one malformed item at any place, and on every prefix of its test vectors
InitWire ==
    /\ Statics
    /\ nvs = nvs_empty
    /\ last = Quiet("idle")
    /\ tasks = tasks_idle
    /\ \/ \E msg \in {"data_packet", "keyboard_packet", "encrypted_data"} :
              \/ \E f \in WireWellFormed(msg, MaxItems) : WireGiven(msg, f)
              \/ \E g \in WireWellFormed(msg, MaxItems - 1), p \in 1..MaxItems,
                    b \in WireBad : WireGiven(msg, WireInsert(g, p, b))
       \/ \E v \in DOMAIN WireVectors : \E k \in 0..Len(WireVectors[v].buf) :
              codec = WireCall(WireVectors[v].msg, <<>>,
                               SubSeq(WireVectors[v].buf, 1, k), v, k)

\* what the decoder returned and left in *out, where it stopped reading and
\* where each of its iterations began
WireReturn(r) ==
    [codec EXCEPT !.op = "decoded", !.rc = r.rc, !.out = r.out, !.pos = r.pos,
                  !.heads = r.heads]

WireDataPacket ==
    /\ codec.op = "input" /\ codec.msg = "data_packet"
    /\ codec' = WireReturn(gostt_decode_data_packet(codec.buf, Len(codec.buf)))
    /\ UNCHANGED <<phase, s_crypto, nvs, link, advertising, s_conn_handle, s_connected,
                   s_keepalive_timer, led, last, tasks>>

WireKeyboardPacket ==
    /\ codec.op = "input" /\ codec.msg = "keyboard_packet"
    /\ codec' = WireReturn(gostt_decode_keyboard_packet(codec.buf, Len(codec.buf)))
    /\ UNCHANGED <<phase, s_crypto, nvs, link, advertising, s_conn_handle, s_connected,
                   s_keepalive_timer, led, last, tasks>>

WireEncryptedData ==
    /\ codec.op = "input" /\ codec.msg = "encrypted_data"
    /\ codec' = WireReturn(gostt_decode_encrypted_data(codec.buf, Len(codec.buf)))
    /\ UNCHANGED <<phase, s_crypto, nvs, link, advertising, s_conn_handle, s_connected,
                   s_keepalive_timer, led, last, tasks>>

NextWire ==
    \/ WireDataPacket
    \/ WireKeyboardPacket
    \/ WireEncryptedData

SpecWire == InitWire /\ [][NextWire]_vars

\* ------------------------------------------- the response encoder on its own
\* the longest payload handed to the encoder
MaxPayload == 255

\* a caller's payload of n bytes
Payload(n) == [i \in 1..n |-> (i * 7 + 121) % 256]

\* type and peer_status arguments: the enumerators, and integers an enum
\* argument can carry whose varint takes two bytes
EncodeTypes == {GOSTT_RESP_KEEPALIVE, GOSTT_RESP_PEER_STATUS, 300}

EncodeStatuses == {GOSTT_PEER_UNKNOWN, GOSTT_PEER_KNOWN, 200}

\* (data, data_len) arguments: NULL, a buffer of which no byte, a part or all
\* is to be sent
EncodeData ==
    {[data |-> NullPtr, data_len |-> 0],
     [data |-> NullPtr, data_len |-> 2],
     [data |-> Ptr(<<222, 173>>), data_len |-> 0],
     [data |-> Ptr(<<222, 173>>), data_len |-> 1],
     [data |-> Ptr(<<222, 173>>), data_len |-> 2]}
    \cup {[data |-> Ptr(Payload(n)), data_len |-> n] : n \in {1, 127, 128, MaxPayload}}

\* a call of gostt_encode_response_packet about to be made: bytes is what the
\* callee wrote to buf, decoded what the test decoder read back
EncodeCall(buf_len, type, peer_status, d) ==
    [op |-> "input", buf_len |-> buf_len, type |-> type, peer_status |-> peer_status,
     data |-> d.data, data_len |-> d.data_len, rc |-> 0, bytes |-> <<>>, decoded |-> <<>>]

InitEncode ==
    /\ Statics
    /\ nvs = nvs_empty
    /\ last = Quiet("idle")
    /\ tasks = tasks_idle
    /\ \E d \in EncodeData, type \in EncodeTypes, peer_status \in EncodeStatuses :
           \E buf_len \in 0..(d.data_len + 12) :
               codec = EncodeCall(buf_len, type, peer_status, d)

\* what the encoder returned and wrote
EncodeReturn(r) == [codec EXCEPT !.op = "encoded", !.rc = r.rc, !.bytes = r.bytes]

EncodeResponsePacket ==
    /\ codec.op = "input"
    /\ codec' = EncodeReturn(gostt_encode_response_packet(
                    codec.buf_len, codec.type, codec.peer_status, codec.data, codec.data_len))
    /\ UNCHANGED <<phase, s_crypto, nvs, link, advertising, s_conn_handle, s_connected,
                   s_keepalive_timer, led, last, tasks>>

\* the test-only decoder of a ResponsePacket: field 1 = kind, 2 = peer_status,
\* 3 = payload, an absent field meaning 0 or empty
response_zero == [rc |-> 0, kind |-> U64Zero, peer_status |-> U64Zero, payload |-> <<>>]

RECURSIVE decode_response_loop(_, _, _)

\* wire type 2: v is the length varint read at pos
decode_response_delimited(buf, pos, out, field_num, v) ==
    IF v.n = 0 \/ U64Gt(v.value, Len(buf) - (pos + v.n)) THEN [out EXCEPT !.rc = -1]
    ELSE decode_response_loop(buf, pos + v.n + v.value[1],
             IF field_num = U32(3)
             THEN [out EXCEPT !.payload = SubSeq(buf, pos + v.n + 1, pos + v.n + v.value[1])]
             ELSE out)

\* wire type 0: v is the value varint read at pos
decode_response_varint(buf, pos, out, field_num, v) ==
    IF v.n = 0 THEN [out EXCEPT !.rc = -1]
    ELSE decode_response_loop(buf, pos + v.n,
             IF field_num = U32(1) THEN [out EXCEPT !.kind = v.value]
             ELSE IF field_num = U32(2) THEN [out EXCEPT !.peer_status = v.value]
             ELSE out)

\* t is the tag varint read at pos
decode_response_tag(buf, pos, out, t) ==
    IF t.n = 0 THEN [out EXCEPT !.rc = -1]
    ELSE IF t.value[1] % 8 = 0
    THEN decode_response_varint(buf, pos + t.n, out, U32Of(U64Shr3(t.value)),
             read_varint(buf, pos + t.n, Len(buf) - (pos + t.n)))
    ELSE IF t.value[1] % 8 = 2
    THEN decode_response_delimited(buf, pos + t.n, out, U32Of(U64Shr3(t.value)),
             read_varint(buf, pos + t.n, Len(buf) - (pos + t.n)))
    ELSE [out EXCEPT !.rc = -1]

decode_response_loop(buf, pos, out) ==
    IF ~(pos < Len(buf)) THEN out
    ELSE decode_response_tag(buf, pos, out, read_varint(buf, pos, Len(buf) - pos))

decode_response_equivalent(buf) == decode_response_loop(buf, 0, response_zero)

\* the test reads back the rc bytes the encoder returned
DecodeResponseEquivalent ==
    /\ codec.op = "encoded"
    /\ codec.rc >= 0
    /\ codec' = [codec EXCEPT !.op = "decoded",
                     !.decoded = decode_response_equivalent(SubSeq(codec.bytes, 1, codec.rc))]
    /\ UNCHANGED <<phase, s_crypto, nvs, link, advertising, s_conn_handle, s_connected,
                   s_keepalive_timer, led, last, tasks>>

NextEncode ==
    \/ EncodeResponsePacket
    \/ DecodeResponseEquivalent

SpecEncode == InitEncode /\ [][NextEncode]_vars

\* ------------------------------------- KeyboardPacket as the companion app
\* ------------------------------------- writes it: 0x0a, n, m, 0x10, d
\* the longest message handed to the keyboard decoder
MaxMessage == 130

\* declared lengths that do not depend on the message
KeyboardDeclared == {0, 1, 5, 127, 128, 300, 70000}

\* field 1 with the n bytes of m, then field 2 with the value d
KeyboardBytes(m, d) ==
    <<10>> \o write_varint(10, Len(m)).bytes \o m \o <<16>> \o write_varint(10, d).bytes

KeyboardCall(m, d) ==
    [op |-> "input", msg |-> "keyboard_packet", fields |-> <<>>, buf |-> KeyboardBytes(m, d),
     vector |-> "none", kept |-> 0, rc |-> 0, out |-> <<>>, pos |-> 0, heads |-> <<>>,
     message |-> m, declared |-> d]

InitKeyboard ==
    /\ Statics
    /\ nvs = nvs_empty
    /\ last = Quiet("idle")
    /\ tasks = tasks_idle
    /\ \E n \in {0, 1, 2, 5, 127, 128, MaxMessage} :
           \E m \in {Zeros(n), Payload(n)} :
               \E d \in KeyboardDeclared \cup {n, n + 1} :
                   codec = KeyboardCall(m, d)

NextKeyboard ==
    \/ WireKeyboardPacket

SpecKeyboard == InitKeyboard /\ [][NextKeyboard]_vars

\* ------------------------------------------ writes on a paired connection
\* deliveries of one and the same packet that are followed
MaxDeliveries == 3

\* field 4 as a peer can write it: absent, 0, 1, 127, 128, 2^32 - 1, 2^32 + 42
SeqFields ==
    {<<>>, <<32, 0>>, <<32, 1>>, <<32, 127>>, <<32, 128, 1>>,
     <<32, 255, 255, 255, 255, 15>>, <<32, 170, 128, 128, 128, 16>>}

\* field 3 with a payload of any length
PayloadField(ct) == <<26>> \o write_varint(10, Len(ct)).bytes \o ct

\* a DataPacket with the sequence-number field as given
SessionPacket(iv, tag, ct, seq_field) ==
    LenField(1, iv) \o LenField(2, tag) \o PayloadField(ct) \o seq_field

\* pt sealed under the session key
SessionCt(pt) == GcmEncryptBytes(FirstKey, PeerIv, pt)

SessionTag(pt) == GcmTag(FirstKey, PeerIv, SessionCt(pt))

SessionSeal(pt, seq_field) == SessionPacket(PeerIv, SessionTag(pt), SessionCt(pt), seq_field)

\* seq with bit b of byte i inverted
FlipBit(seq, i, b) ==
    [seq EXCEPT ![i] = IF (@ \div Pow2(b)) % 2 = 1 THEN @ - Pow2(b) ELSE @ + Pow2(b)]

\* the packet sealing PtText with one bit of the tag, or of the ciphertext,
\* inverted on the way
TagFlipped ==
    {SessionPacket(PeerIv, FlipBit(SessionTag(PtText), i, b), SessionCt(PtText), <<32, 1>>) :
         i \in 1..GOSTT_TAG_LEN, b \in 0..7}

CiphertextFlipped ==
    {SessionPacket(PeerIv, SessionTag(PtText), FlipBit(SessionCt(PtText), i, b), <<32, 1>>) :
         i \in 1..Len(PtText), b \in 0..7}

\* packets whose field 3 is absent or empty, with the tag of the empty
\* ciphertext and with another
EmptyPayloads ==
    {LenField(1, PeerIv) \o LenField(2, tag) \o f3 \o <<32, 1>> :
         tag \in {SessionTag(<<>>), Zeros(GOSTT_TAG_LEN)}, f3 \in {<<>>, <<26, 0>>}}

\* a plaintext of n bytes: a command with n - 5 bytes of data
PtLong(n) == <<16, 1, 26>> \o write_varint(10, n - 5).bytes \o Zeros(n - 5)

\* the longest packet a write can carry (512 bytes), and one whose ciphertext
\* alone is longer than the handler's buffers
LongPackets == {SessionSeal(PtLong(477), <<>>), SessionSeal(PtLong(TX_BUF_SIZE + 1), <<>>)}

\* varint of 2^32 + v, v < 128
Wide(v) == <<128 + v, 128, 128, 128, 16>>

\* a keyboard packet with declared_length 2^32 + 2 next to command_type 2^32,
\* and a command with command_type 2^32 + 1
PtWideText == LenField(1, LenField(1, Hi) \o <<16>> \o Wide(2)) \o <<16>> \o Wide(0)

PtWideToggle == <<16>> \o Wide(GOSTT_CMD_MUTE_TOGGLE)

SessionWrites ==
    {SessionSeal(pt, sq) : pt \in {PtText, PtConfigure, PtWideText, PtWideToggle},
                           sq \in {<<32, 1>>, <<32, 170, 128, 128, 128, 16>>}}
    \cup TagFlipped \cup CiphertextFlipped \cup EmptyPayloads \cup LongPackets

\* what the write under way was handled with and the led it found; where one
\* packet is delivered over and over, its plaintext and sequence-number field
\* and its deliveries so far: in all, with a library failure, decrypted, with a
\* sink call
session_none ==
    [op |-> "session", e |-> WriteEnv(1, "none", "none", TRUE, TRUE), led |-> led_init,
     pt |-> <<>>, seq_field |-> <<>>, delivered |-> 0, faulted |-> 0, decrypted |-> 0,
     dispatched |-> 0]

\* a paired device with a peer connected: booted with the key of an earlier
\* pairing in the store, synced, connect event handled
SessionUp ==
    /\ phase = "synced"
    /\ s_crypto = [aes_key |-> FirstKey, has_key |-> TRUE, peer_pubkey |-> Point(2, 1)]
    /\ nvs = [nvs_empty EXCEPT !.aes_key = Blob(GOSTT_AES_KEY_LEN, FirstKey),
                               !.peer_pub = Blob(GOSTT_COMPRESSED_PUBKEY_LEN, Point(2, 1))]
    /\ link = FirstHandle
    /\ advertising = FALSE
    /\ s_conn_handle = FirstHandle
    /\ s_connected = TRUE
    /\ s_keepalive_timer = "running"
    /\ led = gostt_led_set(led_init, "PAIRED")
    /\ last = Quiet("idle")
    /\ tasks = tasks_idle

InitSession ==
    /\ SessionUp
    /\ codec = session_none

\* the write handler's effects on the session, the store, the led and the record
\* of the event
Handled(op, om, r) ==
    /\ s_crypto' = r.crypto
    /\ nvs' = r.nvs
    /\ led' = r.led
    /\ last' = Last(op, om, Entry, r.rc, r.notified, r.text, r.command, r.calls)
    /\ UNCHANGED <<phase, link, advertising, s_conn_handle, s_connected,
                   s_keepalive_timer, tasks>>

\* a write on the paired connection
TxWriteSession ==
    /\ Idle /\ link # BLE_HS_CONN_HANDLE_NONE
    /\ \E om \in SessionWrites, e \in CommandEnvs :
           /\ Handled("write", om, tx_char_write_cb(om, s_crypto, nvs, s_conn_handle, led, e))
           /\ codec' = [codec EXCEPT !.e = e, !.led = led]

NextSession ==
    \/ TxWriteSession
    \/ HandlerReturn

SpecSession == InitSession /\ [][NextSession]_vars

\* the packet the peer, or anyone who recorded it, delivers over and over: a
\* text, a command, and a command that fills a write of 512 bytes when its
\* sequence number takes one byte
InitReplay ==
    /\ SessionUp
    /\ \E pt \in {PtText, PtConfigure, PtLong(475)}, sq \in SeqFields :
           codec = [session_none EXCEPT !.pt = pt, !.seq_field = sq]

\* the counts after a delivery handled with e and result r
Delivered(e, r) ==
    [codec EXCEPT !.e = e, !.led = led,
                  !.delivered = @ + 1,
                  !.faulted = @ + (IF e.dfault = "none" THEN 0 ELSE 1),
                  !.decrypted = @ + Cardinality({i \in DOMAIN r.calls :
                                                    /\ r.calls[i].fn = "gostt_crypto_decrypt"
                                                    /\ r.calls[i].rc >= 0}),
                  !.dispatched = @ + Len(r.text) + Len(r.command)]

\* r is the result of handling om with e
TxReplayed(om, e, r) ==
    /\ Handled("write", om, r)
    /\ codec' = Delivered(e, r)

\* one more delivery of the packet
TxWriteReplay ==
    /\ Idle /\ link # BLE_HS_CONN_HANDLE_NONE
    /\ codec.delivered < MaxDeliveries
    /\ \E e \in CommandEnvs :
           TxReplayed(SessionSeal(codec.pt, codec.seq_field), e,
                      tx_char_write_cb(SessionSeal(codec.pt, codec.seq_field),
                                       s_crypto, nvs, s_conn_handle, led, e))

NextReplay ==
    \/ TxWriteReplay
    \/ HandlerReturn

SpecReplay == InitReplay /\ [][NextReplay]_vars

\* ------------------------------------------------- typing a received text
\* usb_hid.c 74-170: the entries of ascii_map for the letters, the digits, the
\* space and the exclamation mark, the printable characters typed here
ascii_map(c) ==
    IF c >= 97 /\ c <= 122 THEN [keycode |-> c - 97 + 4, shift |-> FALSE]
    ELSE IF c >= 65 /\ c <= 90 THEN [keycode |-> c - 65 + 4, shift |-> TRUE]
    ELSE IF c >= 49 /\ c <= 57 THEN [keycode |-> c - 49 + 30, shift |-> FALSE]
    ELSE IF c = 48 THEN [keycode |-> 39, shift |-> FALSE]
    ELSE IF c = 32 THEN [keycode |-> 44, shift |-> FALSE]
    ELSE [keycode |-> 30, shift |-> TRUE]

\* usb_hid.c 236-253: the keyboard reports of one iteration for the character
\* c, pressed and released by task; none for a character that is skipped
type_text_key(c, task) ==
    IF c = 10 THEN <<[task |-> task, modifier |-> 0, keycode |-> 40]>>
    ELSE IF c = 9 THEN <<[task |-> task, modifier |-> 0, keycode |-> 43]>>
    ELSE IF c >= 32 /\ c <= 126
    THEN <<[task |-> task, modifier |-> IF ascii_map(c).shift THEN 2 ELSE 0,
            keycode |-> ascii_map(c).keycode]>>
    ELSE <<>>

\* the messages the peer has typed: "hi", "Hi!" and a newline, a tab with a
\* byte outside ASCII and a digit, and the empty message
TypedTexts == {Hi, <<72, 105, 33, 10>>, <<9, 233, 48>>, <<>>}

\* a call of gostt_usb_hid_type_text: the text, the characters done, the
\* reports sent so far with the task that sent them, whether the call is under
\* way and what it returned
typing_none ==
    [op |-> "typing", text |-> <<>>, i |-> 0, reports |-> <<>>, mounted |-> TRUE,
     active |-> FALSE, rc |-> 0, calls |-> 0]

InitTyping ==
    /\ SessionUp
    /\ codec = typing_none

\* r is the result of the write handler up to its text callback
TypingEntered(om, mounted, r) ==
    /\ Handled("write", om, r)
    /\ codec' = [typing_none EXCEPT !.text = IF r.text = <<>> THEN <<>> ELSE r.text[1],
                                    !.mounted = mounted,
                                    !.active = r.text # <<>>,
                                    !.calls = Len(r.text)]

\* a sealed text arrives: the handler decrypts and decodes it and, through
\* on_text_received (main.c 25-29), enters gostt_usb_hid_type_text
TxWriteText ==
    /\ Idle /\ link # BLE_HS_CONN_HANDLE_NONE
    /\ \E msg \in TypedTexts, e \in CommandEnvs, mounted \in BOOLEAN :
           TypingEntered(SessionSeal(LenField(1, KbdPacket(msg)), <<32, 1>>), mounted,
                         tx_char_write_cb(SessionSeal(LenField(1, KbdPacket(msg)), <<32, 1>>),
                                          s_crypto, nvs, s_conn_handle, led, e))

\* usb_hid.c 235-254: one iteration of the loop, on the task that called
TypeTextKey ==
    /\ codec.active /\ codec.mounted /\ codec.i < Len(codec.text)
    /\ codec' = [codec EXCEPT !.i = @ + 1,
                              !.reports = @ \o type_text_key(codec.text[codec.i + 1], "host")]
    /\ UNCHANGED <<phase, s_crypto, nvs, link, advertising, s_conn_handle, s_connected,
                   s_keepalive_timer, led, last, tasks>>

\* usb_hid.c 230-233 and 255: gostt_usb_hid_type_text returns
TypeTextReturn ==
    /\ codec.active
    /\ ~codec.mounted \/ codec.i = Len(codec.text)
    /\ codec' = [codec EXCEPT !.active = FALSE, !.rc = IF codec.mounted THEN 0 ELSE 0 - 1]
    /\ UNCHANGED <<phase, s_crypto, nvs, link, advertising, s_conn_handle, s_connected,
                   s_keepalive_timer, led, last, tasks>>

\* the handler returns to the host task's event loop once its callback is back
TypingHandlerReturn ==
    /\ ~codec.active
    /\ HandlerReturn

NextTyping ==
    \/ TxWriteText
    \/ TypeTextKey
    \/ TypeTextReturn
    \/ TypingHandlerReturn
    \/ GapDisconnect
    \/ GapConnect

SpecTyping == InitTyping /\ [][NextTyping]_vars

\* ------------------------------------------------------------------ properties
\* what the handler that ran last called
CalledFns == {last.calls[i].fn : i \in DOMAIN last.calls}

Called(fn, rc) == \E i \in DOMAIN last.calls : last.calls[i] = Call(fn, rc)

Decrypted ==
    \E i \in DOMAIN last.calls :
        last.calls[i].fn = "gostt_crypto_decrypt" /\ last.calls[i].rc >= 0

\* the decoded DataPacket pkt of the write om carries a payload whose tag is the
\* AES-GCM tag under the key of crypto
Authentic(crypto, om, pkt) ==
    /\ pkt.rc = 0
    /\ pkt.out.encrypted_data # NULL
    /\ pkt.out.encrypted_data_len > 0
    /\ pkt.out.tag = GcmTag(crypto.aes_key, pkt.out.iv,
                            View(om, pkt.out.encrypted_data, pkt.out.encrypted_data_len))

\* C1: a text or command sink call happens only in an inbound-write handler run
\* that found a key, decoded the write as a DataPacket and had
\* gostt_crypto_decrypt succeed on it, the packet's tag being the authentic one
\* under the session key.
C1_DispatchOnlyAfterDecrypt ==
    (last.text # <<>> \/ last.command # <<>>) =>
        /\ last.op = "write"
        /\ last.pre.crypto.has_key
        /\ Called("gostt_decode_data_packet", 0)
        /\ Decrypted
        /\ Authentic(last.pre.crypto, last.om,
                     gostt_decode_data_packet(last.om, Len(last.om)))

C1_Witness ==
    /\ last.op = "write"
    /\ last.text = <<Hi>>
    /\ Called("gostt_crypto_decrypt", Len(PtText))

\* a stage of the encrypted-command path returned failure
StageFailed ==
    \E i \in DOMAIN last.calls :
        \/ /\ last.calls[i].fn \in {"gostt_decode_data_packet",
                                    "gostt_decode_encrypted_data",
                                    "gostt_decode_keyboard_packet"}
           /\ last.calls[i].rc # 0
        \/ /\ last.calls[i].fn = "gostt_crypto_decrypt"
           /\ last.calls[i].rc < 0

\* C2: with a key present, a failure of the DataPacket decode, the decrypt, the
\* EncryptedData decode or the KeyboardPacket decode calls no sink and signals
\* error to the status sink.
C2_StageFailureSignalsError ==
    (last.op = "write" /\ Called("has_key", 1) /\ StageFailed) =>
        /\ last.text = <<>>
        /\ last.command = <<>>
        /\ "gostt_led_flash_error" \in CalledFns

\* C3: when gostt_crypto_pair returns failure, the session (key, has_key, peer
\* public key) and the persisted key material are as they were before the call.
C3_PairAllOrNothing ==
    (last.op = "write" /\ Called("gostt_crypto_pair", -1)) =>
        /\ s_crypto = last.pre.crypto
        /\ nvs = last.pre.nvs

\* the write has the shape of a pairing request
PairingShape(om) ==
    Len(om) = GOSTT_COMPRESSED_PUBKEY_LEN /\ (om[1] = 2 \/ om[1] = 3)

\* C4: a non-empty accepted write is handled as a pairing request exactly when
\* it is 33 bytes long and starts with 0x02 or 0x03, as an encrypted command
\* otherwise, and never as both.
C4_PairingClassification ==
    (last.op = "write" /\ Len(last.om) > 0 /\ Len(last.om) <= TX_BUF_SIZE) =>
        /\ ("gostt_crypto_pair" \in CalledFns) <=> PairingShape(last.om)
        /\ ("has_key" \in CalledFns) <=> ~PairingShape(last.om)
        /\ ~("gostt_crypto_pair" \in CalledFns /\ "has_key" \in CalledFns)

C4_Witness ==
    /\ last.op = "write"
    /\ Len(last.om) = GOSTT_COMPRESSED_PUBKEY_LEN
    /\ last.om[1] = 4
    /\ "has_key" \in CalledFns

\* the notification is ResponsePacket{PeerStatus, Known, a 33-byte compressed
\* public key}, the key being the device's own of this pairing
PairingResponse(n) ==
    /\ n.conn = last.pre.conn
    /\ Len(n.bytes) = 6 + GOSTT_COMPRESSED_PUBKEY_LEN
    /\ SubSeq(n.bytes, 1, 6) = <<8, GOSTT_RESP_PEER_STATUS, 16, GOSTT_PEER_KNOWN, 26,
                                 GOSTT_COMPRESSED_PUBKEY_LEN>>
    /\ n.bytes[7] \in {2, 3}
    /\ \E eph \in EphKeys :
           /\ SubSeq(n.bytes, 7, Len(n.bytes)) = OwnPubkey(eph)
           /\ s_crypto.aes_key = DeriveKey(eph, last.om)

\* C5: on a pairing request the response is sent and the status sink set to
\* Paired exactly when gostt_crypto_pair succeeded (leaving has_key true); when
\* it failed no response is sent, error is signalled and the paired/unpaired
\* status is unchanged.
C5_ResponseIffPaired ==
    (last.op = "write" /\ "gostt_crypto_pair" \in CalledFns) =>
        IF Called("gostt_crypto_pair", 0)
        THEN /\ s_crypto.has_key
             /\ led.s_state = "PAIRED"
             /\ Len(last.notified) = 1
             /\ PairingResponse(last.notified[1])
        ELSE /\ last.notified = <<>>
             /\ "gostt_led_flash_error" \in CalledFns
             /\ led.s_state = last.pre.led
             /\ s_crypto.has_key = last.pre.crypto.has_key

\* the handler that ran last paired a session that already had a key
RePaired ==
    /\ last.op = "write"
    /\ Called("gostt_crypto_pair", 0)
    /\ last.pre.crypto.has_key

\* packets sealed under key, a text and a command, no longer decrypt in the
\* session as it is now
KeyRetired(key) ==
    \A pt \in {PtText, PtToggle} :
        gostt_crypto_decrypt(s_crypto, PeerIv,
                             GcmTag(key, PeerIv, GcmEncryptBytes(key, PeerIv, pt)),
                             GcmEncryptBytes(key, PeerIv, pt), Len(pt), "none").rc = -1

\* the session holds the key derived from the request and the peer's public key
SessionHoldsNew ==
    /\ s_crypto.has_key
    /\ s_crypto.peer_pubkey = last.om
    /\ \E eph \in EphKeys : s_crypto.aes_key = DeriveKey(eph, last.om)

\* C6 as stated: after a successful pairing while already paired, the session
\* and the persistent store hold the new key and the new peer public key, and
\* the previous key no longer decrypts.
C6_RePairingReplacesKeyEverywhere ==
    RePaired =>
        /\ SessionHoldsNew
        /\ nvs.aes_key = Blob(GOSTT_AES_KEY_LEN, s_crypto.aes_key)
        /\ nvs.peer_pub = Blob(GOSTT_COMPRESSED_PUBKEY_LEN, last.om)
        /\ last.pre.crypto.aes_key # s_crypto.aes_key => KeyRetired(last.pre.crypto.aes_key)

\* C6, amended: after a successful pairing while already paired, the session
\* holds the new key and the new peer public key and the previous key no longer
\* decrypts; the store holds the new key when save_key_to_nvs returned success
\* (with the new peer public key, or the previous one if that write failed) and
\* is unchanged when it returned failure.
C6_RePairingReplacesSessionKey ==
    RePaired =>
        /\ SessionHoldsNew
        /\ IF Called("save_key_to_nvs", 0)
           THEN /\ nvs.aes_key = Blob(GOSTT_AES_KEY_LEN, s_crypto.aes_key)
                /\ nvs.peer_pub \in {Blob(GOSTT_COMPRESSED_PUBKEY_LEN, last.om),
                                     last.pre.nvs.peer_pub}
                /\ nvs.mute_cfg = last.pre.nvs.mute_cfg
           ELSE nvs = last.pre.nvs
        /\ last.pre.crypto.aes_key # s_crypto.aes_key => KeyRetired(last.pre.crypto.aes_key)

C6_Witness ==
    /\ RePaired
    /\ last.pre.crypto.aes_key # s_crypto.aes_key
    /\ Called("save_key_to_nvs", -1)
    /\ nvs.aes_key = Blob(GOSTT_AES_KEY_LEN, last.pre.crypto.aes_key)

\* C7: the keepalive send of the timer task and the pairing-response send of
\* the host task are never in progress at the same time on one connection.
C7_SendsExclusive ==
    ~(/\ tasks.timer = "notify"
      /\ tasks.host = "notify"
      /\ tasks.timer_arg = tasks.host_arg)

\* C8: the handle the timer callback passes to the send is never
\* BLE_HS_CONN_HANDLE_NONE and is the handle of the connection that is up when
\* the send is called.
C8_TimerHandleValid ==
    tasks.timer = "notify" =>
        /\ tasks.timer_arg # BLE_HS_CONN_HANDLE_NONE
        /\ tasks.timer_arg = tasks.timer_link

\* C9: gostt_decode_data_packet succeeds only on an input that holds field 1
\* with declared length 12 and field 2 with declared length 16, and no iv or tag
\* field of another length.
C9_IvAndTagRequired ==
    (codec.op = "gostt_decode_data_packet" /\ codec.rc = 0) =>
        /\ \E i \in DOMAIN codec.fields : codec.fields[i] = "iv"
        /\ \E i \in DOMAIN codec.fields : codec.fields[i] = "tag"
        /\ \A i \in DOMAIN codec.fields : codec.fields[i] \notin {"iv_short", "tag_long"}

\* the plaintext of the DataPacket pkt of the write om under the key of crypto
PlainOf(crypto, om, pkt) ==
    GcmDecryptBytes(crypto.aes_key, pkt.out.iv,
                    View(om, pkt.out.encrypted_data, pkt.out.encrypted_data_len))

\* the keyboard routing: the text sink once with the message, if kdata decodes
RoutedKeyboard(kdata, kbd) ==
    /\ last.command = <<>>
    /\ last.text = IF kbd.rc = 0
                   THEN <<View(kdata, kbd.out.message, kbd.out.message_len)>>
                   ELSE <<>>

\* the routing of the EncryptedData ed decoded from plaintext
RoutedAs(plaintext, ed) ==
    IF ed.out.command_type # U32Zero
    THEN /\ last.text = <<>>
         /\ last.command =
                <<[command_type |-> ed.out.command_type,
                   data |-> View(plaintext, ed.out.command_data, ed.out.command_data_len),
                   data_len |-> ed.out.command_data_len]>>
    ELSE IF ed.out.keyboard_packet_data = NULL
    THEN last.text = <<>> /\ last.command = <<>>
    ELSE RoutedKeyboard(View(plaintext, ed.out.keyboard_packet_data,
                             ed.out.keyboard_packet_data_len),
                        gostt_decode_keyboard_packet(
                            View(plaintext, ed.out.keyboard_packet_data,
                                 ed.out.keyboard_packet_data_len),
                            ed.out.keyboard_packet_data_len))

RoutedPlain(plaintext) ==
    RoutedAs(plaintext, gostt_decode_encrypted_data(plaintext, Len(plaintext)))

\* C10: a packet that decrypted and decoded as EncryptedData is routed one way:
\* command_type 0 with a keyboard payload that decodes calls the text sink once
\* with the message and not the command sink; command_type >= 1 calls the
\* command sink once with (command_type, command_data) and not the text sink,
\* keyboard payload or not; command_type 0 without keyboard payload calls
\* neither.
C10_ExactlyOneRouting ==
    (last.op = "write" /\ Called("gostt_decode_encrypted_data", 0)) =>
        RoutedPlain(PlainOf(last.pre.crypto, last.om,
                            gostt_decode_data_packet(last.om, Len(last.om))))

C10_Witness ==
    /\ last.op = "write"
    /\ last.om = Seal(FirstKey, PeerIv, PtCommandAndText, 1)
    /\ Len(last.command) = 1
    /\ last.text = <<>>


\* the handler that ran last left the recorded connection as it found it
ConnectionKept ==
    /\ s_conn_handle = last.pre.conn
    /\ s_connected = last.pre.connected
    /\ s_keepalive_timer = last.pre.timer
    /\ advertising = last.pre.advertising
    /\ link = last.pre.link

\* C11: while has_key is false, a write that is not a pairing request is dropped
\* silently: no sink call, nothing sent to the peer, no error signalled to the
\* status sink, and session, store and connection state unchanged.
C11_NoKeyDropsSilently ==
    (last.op = "write" /\ ~last.pre.crypto.has_key /\ ~PairingShape(last.om)) =>
        /\ last.text = <<>>
        /\ last.command = <<>>
        /\ last.notified = <<>>
        /\ CalledFns \subseteq {"has_key"}
        /\ led.s_state = last.pre.led
        /\ s_crypto = last.pre.crypto
        /\ nvs = last.pre.nvs
        /\ ConnectionKept

C11_Witness ==
    /\ last.op = "write"
    /\ ~last.pre.crypto.has_key
    /\ last.om = Seal(FirstKey, PeerIv, PtText, 1)
    /\ Called("has_key", 0)

\* C12: a write of any content (valid, malformed, unauthenticated, oversized, a
\* pairing request that succeeds or fails) leaves the connection handle, the
\* connected flag, the keepalive timer and the advertising state as they were.
C12_WriteKeepsConnection ==
    last.op = "write" => ConnectionKept

C12_Witness ==
    /\ last.op = "write"
    /\ Called("gostt_crypto_pair", 0 - 1)
    /\ s_connected
    /\ s_conn_handle = link
    /\ s_keepalive_timer = "running"

\* C13: a connect event with status 0 records the handle, sets the status sink
\* to Paired if has_key and Connected otherwise, and starts the keepalive timer;
\* a connect event with another status does none of this and restarts
\* advertising.
C13_ConnectResolvesState ==
    /\ last.op = "connect" =>
           /\ s_conn_handle = link
           /\ s_conn_handle # BLE_HS_CONN_HANDLE_NONE
           /\ s_connected
           /\ led.s_state = IF last.pre.crypto.has_key THEN "PAIRED" ELSE "CONNECTED"
           /\ s_keepalive_timer = "running"
    /\ last.op = "connect_failed" =>
           /\ s_conn_handle = last.pre.conn
           /\ s_connected = last.pre.connected
           /\ s_keepalive_timer = last.pre.timer
           /\ led.s_state = "ADVERTISING"
           /\ "start_advertising" \in CalledFns

KeepaliveBytes == <<8, GOSTT_RESP_KEEPALIVE, 16, GOSTT_PEER_UNKNOWN>>

\* C15: a firing of the keepalive timer while a peer is connected sends exactly
\* one ResponsePacket{Keepalive, Unknown, no payload}, a firing while
\* disconnected sends nothing, and once the device is up the timer is running
\* exactly while a peer is connected.
C15_KeepaliveWhileConnected ==
    /\ last.op = "keepalive" =>
           /\ last.notified = IF last.pre.link # BLE_HS_CONN_HANDLE_NONE
                              THEN <<[conn |-> last.pre.link, bytes |-> KeepaliveBytes]>>
                              ELSE <<>>
           /\ s_crypto = last.pre.crypto
           /\ nvs = last.pre.nvs
           /\ ConnectionKept
    /\ phase = "synced" =>
           ((s_keepalive_timer = "running") <=> (link # BLE_HS_CONN_HANDLE_NONE))

\* C16: no channel state is terminal: once the device is up, whenever no peer is
\* connected the device is advertising, so a new connection can be accepted.
C16_AdvertisingWheneverDisconnected ==
    (phase = "synced" /\ link = BLE_HS_CONN_HANDLE_NONE) => advertising

\* the call that ran last was gostt_crypto_erase
Erased == last.op \in {"gostt_crypto_erase", "gostt_crypto_erase_again"}

\* C17: after gostt_crypto_erase returns, has_key is false, the in-memory key
\* and peer public key are zero, and the store holds no symmetric key, no peer
\* public key and no mute configuration, whether or not the store could be
\* opened.
C17_EraseLeavesNothing ==
    Erased =>
        /\ last.rc = 0
        /\ s_crypto = ctx_zero
        /\ nvs = nvs_empty

\* the first of two erase calls in succession could not open the store and the
\* second could
StoreCameBack ==
    /\ Len(last.calls) = 2
    /\ last.calls[1] = Call("nvs_open", 0 - 1)
    /\ last.calls[2] = Call("nvs_open", 0)

\* C18: gostt_crypto_erase is idempotent: two calls in succession leave the
\* in-memory and the persisted state that one call leaves.
C18_EraseIdempotent ==
    last.op = "gostt_crypto_erase_again" =>
        /\ s_crypto = last.pre.crypto
        /\ nvs = last.pre.nvs

\* the second of two erase calls changes nothing in memory, and changes the
\* store only when the first call could not open it and the second could
EraseTwiceDiffersOnlyWhenStoreCameBack ==
    last.op = "gostt_crypto_erase_again" =>
        /\ s_crypto = last.pre.crypto
        /\ s_crypto = ctx_zero
        /\ nvs = IF StoreCameBack THEN nvs_empty ELSE last.pre.nvs

\* C19: when the key was derived and persisting it fails, gostt_crypto_pair
\* still returns success with has_key true and the new key, which decrypts the
\* peer's packets; writes that follow on the command path leave the session as
\* it is.
C19_PersistFailureNotFatal ==
    /\ (last.op = "write" /\ "save_key_to_nvs" \in CalledFns) =>
           /\ Called("gostt_crypto_pair", 0)
           /\ SessionHoldsNew
           /\ \E eph \in EphKeys :
                  /\ s_crypto.aes_key = DeriveKey(eph, last.om)
                  /\ gostt_crypto_decrypt(
                         s_crypto, PeerIv,
                         GcmTag(DeriveKey(eph, last.om), PeerIv,
                                GcmEncryptBytes(DeriveKey(eph, last.om), PeerIv, PtText)),
                         GcmEncryptBytes(DeriveKey(eph, last.om), PeerIv, PtText),
                         Len(PtText), "none").rc = Len(PtText)
    /\ (last.op = "write" /\ "has_key" \in CalledFns) => s_crypto = last.pre.crypto

C19_Witness ==
    /\ last.op = "write"
    /\ Called("save_key_to_nvs", 0 - 1)
    /\ Called("gostt_crypto_pair", 0)
    /\ ~last.pre.crypto.has_key
    /\ s_crypto.has_key
    /\ nvs = nvs_empty

\* the store holds a symmetric-key blob of exactly 32 bytes
StoredKeyValid(nv) == nv.aes_key.present /\ nv.aes_key.len = GOSTT_AES_KEY_LEN

\* C20 as stated: gostt_crypto_init sets has_key exactly when the store (if it
\* can be opened) holds a key blob of 32 bytes, and reports success.
C20_InitLoadsExactKey ==
    last.op = "gostt_crypto_init" =>
        /\ s_crypto.has_key <=>
               (StoredKeyValid(last.pre.nvs) /\ ~Called("nvs_open", 0 - 1))
        /\ (~StoredKeyValid(last.pre.nvs) \/ Called("nvs_open", 0 - 1)) => last.rc = 0

\* C20, amended: gostt_crypto_init sets has_key exactly when psa_crypto_init
\* succeeded, the store could be opened and it holds a key blob of 32 bytes;
\* it returns 0 whenever psa_crypto_init succeeded, key loaded or not, and -1
\* with has_key false when psa_crypto_init failed; the store is not written.
C20_InitLoadsExactKeyAfterPsaInit ==
    last.op = "gostt_crypto_init" =>
        /\ s_crypto.has_key <=>
               /\ Called("psa_crypto_init", 0)
               /\ Called("nvs_open", 0)
               /\ StoredKeyValid(last.pre.nvs)
        /\ s_crypto.has_key => s_crypto.aes_key = last.pre.nvs.aes_key.val
        /\ last.rc = IF Called("psa_crypto_init", 0) THEN 0 ELSE 0 - 1
        /\ nvs = last.pre.nvs

C20_Witness ==
    /\ last.op = "gostt_crypto_init"
    /\ last.pre.nvs.aes_key.present
    /\ last.pre.nvs.aes_key.len = GOSTT_AES_KEY_LEN - 1
    /\ Called("nvs_open", 0)
    /\ last.rc = 0
    /\ ~s_crypto.has_key

\* C21: when gostt_crypto_init returns an error at start-up, app_main does not
\* start the BLE server, so no connection is accepted and no write is handled.
C21_NoServerWithoutCrypto ==
    (last.op = "app_main" /\ Called("gostt_crypto_init", 0 - 1)) => phase # "started"

\* a decoder of the three has returned
WireDone == codec.op = "decoded"

\* the view (ptr, len) a decoder returned lies inside the buffer it was given
Inside(ptr, len) == ptr = NULL \/ (ptr >= 0 /\ len >= 0 /\ ptr + len <= Len(codec.buf))

\* every view in the result of the call lies inside the buffer
ViewsInside ==
    CASE codec.msg = "data_packet" ->
             Inside(codec.out.encrypted_data, codec.out.encrypted_data_len)
      [] codec.msg = "keyboard_packet" ->
             Inside(codec.out.message, codec.out.message_len)
      [] codec.msg = "encrypted_data" ->
             /\ Inside(codec.out.keyboard_packet_data, codec.out.keyboard_packet_data_len)
             /\ Inside(codec.out.command_data, codec.out.command_data_len)

\* the call was given item name; as the last item if last
Given(name) == \E i \in DOMAIN codec.fields : codec.fields[i] = name

GivenLast(name) == codec.fields # <<>> /\ codec.fields[Len(codec.fields)] = name

\* C22: each decoder fails when a length-delimited field declares more bytes
\* than remain in the buffer, for declared lengths up to 2^64 - 1, and on
\* success every view it returns lies inside the input buffer.
C22_DeclaredLengthsBounded ==
    WireDone =>
        /\ \A name \in {"over_200", "over_64k", "over_4g", "over_max"} :
               Given(name) => codec.rc = 0 - 1
        /\ GivenLast("over_by_one") => codec.rc = 0 - 1
        /\ codec.rc = 0 => ViewsInside

C22_Witness ==
    /\ WireDone
    /\ codec.msg = "encrypted_data"
    /\ codec.fields = <<"bytes1", "over_max", "bytes3">>
    /\ codec.rc = 0 - 1
    /\ codec.out.keyboard_packet_data = 2
    /\ codec.out.command_data = NULL

\* C23: each decoder returns an error when a tag, value or length varint still
\* has the continuation bit set on its 10th byte, or when the buffer ends
\* inside it.
C23_TruncatedVarintFails ==
    WireDone =>
        /\ \A name \in {"long_tag", "long_val", "long_len"} : Given(name) => codec.rc = 0 - 1
        /\ \A name \in {"cut_tag", "cut_val", "cut_len"} : GivenLast(name) => codec.rc = 0 - 1

C23_Witness ==
    /\ WireDone
    /\ codec.msg = "keyboard_packet"
    /\ codec.fields = <<"bytes1", "long_val", "var2">>
    /\ codec.rc = 0 - 1
    /\ codec.out.message = 2

\* C24: each decoder fails when it meets a field whose wire type is not 0 or
\* 2, whether the field number is known or not and wherever the field stands.
C24_UnsupportedWireTypeFails ==
    WireDone =>
        \A name \in {"fixed64", "group_far"} : Given(name) => codec.rc = 0 - 1

C24_Witness ==
    /\ WireDone
    /\ codec.msg = "data_packet"
    /\ codec.fields = <<"iv", "group_far", "bytes3">>
    /\ codec.rc = 0 - 1
    /\ codec.out.iv[1] = 170
    /\ codec.out.encrypted_data = NULL

\* decoder msg on buf
WireDecode(msg, buf) ==
    CASE msg = "data_packet"     -> gostt_decode_data_packet(buf, Len(buf))
      [] msg = "keyboard_packet" -> gostt_decode_keyboard_packet(buf, Len(buf))
      [] msg = "encrypted_data"  -> gostt_decode_encrypted_data(buf, Len(buf))

\* what a caller reads from the result r of decoder msg on buf: the return code,
\* the integer fields, and the bytes behind every view
WireResult(msg, buf, r) ==
    CASE msg = "data_packet" ->
             <<r.rc, r.out.iv, r.out.tag, r.out.packet_num, r.out.encrypted_data # NULL,
               View(buf, r.out.encrypted_data, r.out.encrypted_data_len)>>
      [] msg = "keyboard_packet" ->
             <<r.rc, r.out.length, r.out.message # NULL,
               View(buf, r.out.message, r.out.message_len)>>
      [] msg = "encrypted_data" ->
             <<r.rc, r.out.command_type, r.out.keyboard_packet_data # NULL,
               View(buf, r.out.keyboard_packet_data, r.out.keyboard_packet_data_len),
               r.out.command_data # NULL,
               View(buf, r.out.command_data, r.out.command_data_len)>>

\* the result of the call, and of the same decoder on other items
WireResultHere == WireResult(codec.msg, codec.buf, codec)

WireResultOf(fields) ==
    WireResult(codec.msg, WireBytes(fields), WireDecode(codec.msg, WireBytes(fields)))

\* the call was given fields of the message and unknown fields only
WellFormedCall ==
    /\ WireDone
    /\ codec.vector = "none"
    /\ \A i \in DOMAIN codec.fields : codec.fields[i] \notin WireBad

\* the items of the call without those in names
Without(names) == SelectSeq(codec.fields, LAMBDA x : x \notin names)

\* C25: fields whose number is not in the message's field map, of wire type 0
\* or 2, are skipped: the message decodes to the result it decodes to without
\* them, wherever they stand.
C25_UnknownFieldsSkipped ==
    WellFormedCall => WireResultHere = WireResultOf(Without(WireUnknown))

\* fields of number 9 and 16 are skipped
UnknownFieldsBelow2to32Skipped ==
    (WellFormedCall /\ ~Given("wrapped1")) =>
        /\ codec.rc = 0
        /\ WireResultHere = WireResultOf(Without(WireUnknown))

\* each item of the call occurs once in it
EachFieldOnce ==
    \A i, j \in DOMAIN codec.fields : codec.fields[i] = codec.fields[j] => i = j

\* the items of the call in the order pi
Permuted(pi) == [i \in DOMAIN codec.fields |-> codec.fields[pi[i]]]

\* C26: a message in which each field number occurs at most once decodes to the
\* same result in every order of its fields.
C26_FieldOrderIrrelevant ==
    (WellFormedCall /\ EachFieldOnce) =>
        \A pi \in Permutations(DOMAIN codec.fields) :
            WireResultOf(Permuted(pi)) = WireResultHere

\* in every order, when no field number is 2^32 or more
FieldOrderIrrelevantBelow2to32 ==
    (WellFormedCall /\ EachFieldOnce /\ ~Given("wrapped1")) =>
        \A pi \in Permutations(DOMAIN codec.fields) :
            WireResultOf(Permuted(pi)) = WireResultHere

\* the call was given the first codec.kept bytes of a test vector, not all
Truncated ==
    /\ WireDone
    /\ codec.vector # "none"
    /\ codec.kept > 0
    /\ codec.kept < Len(WireVectors[codec.vector].buf)

\* C30 as stated: every test vector cut short at any split point makes its
\* decoder return the decode error.
C30_TruncationFails ==
    Truncated => codec.rc = 0 - 1

\* the lengths at which a field of the vector ends
FieldEnds ==
    [keyboard_hello |-> {7, 9}, keyboard_empty |-> {2, 4},
     data_packet |-> {14, 32, 37, 39}, encrypted_data |-> {11}]

\* C30, amended: a test vector cut short at any split point makes its decoder
\* return the decode error, or, when the cut falls where a field ends, succeed
\* with the fields kept; every view returned lies inside the bytes kept.
C30_TruncationFailsOrKeepsFields ==
    (WireDone /\ codec.vector # "none" /\ codec.kept > 0) =>
        /\ codec.rc \in {0, 0 - 1}
        /\ codec.rc = 0 <=> codec.kept \in FieldEnds[codec.vector]
        /\ codec.rc = 0 => ViewsInside
        /\ (codec.rc = 0 /\ codec.msg = "keyboard_packet") =>
               /\ View(codec.buf, codec.out.message, codec.out.message_len)
                      = SubSeq(codec.buf, 3, codec.kept - (IF codec.kept \in {4, 9} THEN 2 ELSE 0))
               /\ codec.out.length =
                      U32(IF codec.kept = 9 THEN 5 ELSE 0)
        /\ (codec.rc = 0 /\ codec.msg = "data_packet") =>
               /\ codec.out.iv[1] = 170
               /\ codec.out.tag[1] = IF codec.kept >= 32 THEN 187 ELSE 0
               /\ View(codec.buf, codec.out.encrypted_data, codec.out.encrypted_data_len)
                      = IF codec.kept >= 37 THEN <<1, 2, 3>> ELSE <<>>
               /\ codec.out.packet_num = U32(IF codec.kept = 39 THEN 42 ELSE 0)
        /\ (codec.rc = 0 /\ codec.msg = "encrypted_data") =>
               /\ codec.out.keyboard_packet_data_len = 9
               /\ codec.out.command_type = U32Zero

C30_Witness ==
    /\ WireDone
    /\ codec.vector = "keyboard_hello"
    /\ codec.kept = 7
    /\ codec.rc = 0
    /\ View(codec.buf, codec.out.message, codec.out.message_len) = <<104, 101, 108, 108, 111>>
    /\ codec.out.length = U32Zero

\* the payload the call asks to send
EncodePayload ==
    IF codec.data.null \/ codec.data_len = 0 THEN <<>>
    ELSE SubSeq(codec.data.bytes, 1, codec.data_len)

\* a 64-bit integer below 2^31 as the decoders hold it
U64OfInt(n) == <<n % Limb, n \div Limb, 0, 0>>

\* C27: decoding what gostt_encode_response_packet returned with the symmetric
\* decoder recovers kind, peer_status and payload, for payloads of 0 to
\* MaxPayload bytes, those of 128 bytes or more included.
C27_ResponseRoundTrip ==
    codec.op = "decoded" =>
        /\ codec.decoded.rc = 0
        /\ codec.decoded.kind = U64OfInt(codec.type)
        /\ codec.decoded.peer_status = U64OfInt(codec.peer_status)
        /\ codec.decoded.payload = EncodePayload

C27_Witness ==
    /\ codec.op = "decoded"
    /\ codec.type = 300
    /\ codec.data_len = 128
    /\ SubSeq(codec.bytes, 1, 9) = <<8, 172, 2, 16, 0, 26, 128, 1, 128>>
    /\ codec.decoded.payload = Payload(128)
    /\ codec.decoded.kind = <<300, 0, 0, 0>>

\* the base-128 little-endian encoding of v < 2^21
VarintOf(v) ==
    IF v < 128 THEN <<v>>
    ELSE IF v < 16384 THEN <<128 + (v % 128), v \div 128>>
    ELSE <<128 + (v % 128), 128 + ((v \div 128) % 128), v \div 16384>>

\* the encoding of the call's arguments
EncodedResponse ==
    <<8>> \o VarintOf(codec.type) \o <<16>> \o VarintOf(codec.peer_status)
        \o (IF ~codec.data.null /\ codec.data_len > 0
            THEN <<26>> \o VarintOf(codec.data_len) \o SubSeq(codec.data.bytes, 1, codec.data_len)
            ELSE <<>>)

\* C28: when the encoder succeeds its output is 0x08, varint(kind), 0x10,
\* varint(peer_status), then, iff the payload is non-null and non-empty, 0x1a,
\* varint(length) and the payload, and it returns the number of bytes written;
\* PeerStatus, Unknown, [DE AD] gives 08 01 10 00 1a 02 DE AD.
C28_EncodedLayout ==
    (codec.op = "encoded" /\ codec.rc >= 0) =>
        /\ codec.bytes = EncodedResponse
        /\ codec.rc = Len(codec.bytes)
        /\ (/\ codec.type = GOSTT_RESP_PEER_STATUS
            /\ codec.peer_status = GOSTT_PEER_UNKNOWN
            /\ codec.data = Ptr(<<222, 173>>)
            /\ codec.data_len = 2) => codec.bytes = <<8, 1, 16, 0, 26, 2, 222, 173>>

C28_Witness ==
    /\ codec.op = "encoded"
    /\ codec.rc = 4
    /\ codec.bytes = <<8, 1, 16, 1>>
    /\ codec.data = Ptr(<<222, 173>>)
    /\ codec.data_len = 0

\* the number of bytes the encoding of the call's arguments takes
EncodedSize == Len(EncodedResponse)

\* C29: the encoder returns -1 exactly when buf_len is less than the encoded
\* size, the byte count otherwise, and writes no byte at an index of buf_len or
\* more.
C29_BufferTooSmall ==
    codec.op = "encoded" =>
        /\ codec.rc = 0 - 1 <=> codec.buf_len < EncodedSize
        /\ codec.rc # 0 - 1 => codec.rc = EncodedSize
        /\ Len(codec.bytes) <= codec.buf_len

C29_Witness ==
    /\ codec.op = "encoded"
    /\ codec.data_len = 128
    /\ codec.type = GOSTT_RESP_PEER_STATUS
    /\ codec.buf_len = EncodedSize - 1
    /\ codec.rc = 0 - 1
    /\ codec.bytes = <<8, 1, 16, 0, 26, 128, 1>>

\* C31: gostt_decode_keyboard_packet on 0x0a, n, m, 0x10, d returns message m
\* of length n and declared length d, for the empty message too, and whether
\* or not d equals n.
C31_KeyboardFieldsAsWritten ==
    WireDone =>
        /\ codec.rc = 0
        /\ codec.out.message # NULL
        /\ codec.out.message_len = Len(codec.message)
        /\ View(codec.buf, codec.out.message, codec.out.message_len) = codec.message
        /\ codec.out.length = U32(codec.declared)

C31_Witness ==
    /\ WireDone
    /\ codec.message = Payload(128)
    /\ codec.declared = 5
    /\ codec.rc = 0
    /\ codec.out.message_len = 128
    /\ codec.out.length = <<5, 0>>

\* C36: the persisted symmetric key and the persisted peer public key stem
\* from the same pairing or are both absent: a pairing that writes a new key
\* leaves its peer's public key next to it.
C36_StoredPairConsistent ==
    /\ nvs.aes_key.present <=> nvs.peer_pub.present
    /\ (last.op = "write" /\ nvs.aes_key # last.pre.nvs.aes_key) =>
           nvs.peer_pub = Blob(GOSTT_COMPRESSED_PUBKEY_LEN, last.om)

\* C38: while a peer is connected and no handler is executing, the status sink
\* shows Paired if has_key is true and Connected otherwise.
C38_StatusAgreesWithSession ==
    (Idle /\ link # BLE_HS_CONN_HANDLE_NONE) =>
        led.s_state = IF s_crypto.has_key THEN "PAIRED" ELSE "CONNECTED"

C38_Witness ==
    /\ Idle
    /\ link # BLE_HS_CONN_HANDLE_NONE
    /\ s_crypto.has_key
    /\ nvs = nvs_empty
    /\ led.s_state = "PAIRED"
    /\ led.s_flash_error

\* the write handled last is a sealed packet that arrived with one bit inverted
Tampered == last.op = "write" /\ last.om \in TagFlipped \cup CiphertextFlipped

DecryptFailed ==
    \E i \in DOMAIN last.calls :
        last.calls[i].fn = "gostt_crypto_decrypt" /\ last.calls[i].rc < 0

\* C32: a valid message with any single bit of its tag or of its ciphertext
\* inverted makes gostt_crypto_decrypt fail, and after a failed decryption no
\* sink is called: neither text nor a command is dispatched.
C32_TamperedNeverDispatched ==
    /\ Tampered => Called("gostt_crypto_decrypt", 0 - 1)
    /\ DecryptFailed =>
           /\ last.text = <<>>
           /\ last.command = <<>>
           /\ CalledFns = {"has_key", "gostt_decode_data_packet", "gostt_crypto_decrypt",
                           "gostt_led_flash_error"}

C32_Witness ==
    /\ last.op = "write"
    /\ last.om \in CiphertextFlipped
    /\ codec.e.dfault = "none"
    /\ Called("gostt_crypto_decrypt", 0 - 1)
    /\ last.text = <<>>

\* the DataPacket the handler decoded from the write handled last
LastPacket == gostt_decode_data_packet(last.om, Len(last.om))

DecryptCalled == "gostt_crypto_decrypt" \in CalledFns

\* C34: for every write the handler accepts (1..512 bytes) the ciphertext
\* length handed to gostt_crypto_decrypt never exceeds the 512-byte plaintext
\* buffer, and a successful decryption returns a plaintext of exactly the
\* ciphertext length.
C34_PlaintextFitsBuffer ==
    (last.op = "write" /\ DecryptCalled) =>
        /\ Len(last.om) \in 1..TX_BUF_SIZE
        /\ LastPacket.out.encrypted_data_len <= TX_BUF_SIZE
        /\ \A i \in DOMAIN last.calls :
               (last.calls[i].fn = "gostt_crypto_decrypt" /\ last.calls[i].rc >= 0) =>
                   last.calls[i].rc = LastPacket.out.encrypted_data_len

\* the longest write: 512 bytes carrying 477 bytes of ciphertext
C34_Witness ==
    /\ last.op = "write"
    /\ Len(last.om) = TX_BUF_SIZE
    /\ LastPacket.out.encrypted_data_len = 477
    /\ Called("gostt_crypto_decrypt", 477)
    /\ Len(last.command) = 1

\* C37: a DataPacket whose encrypted_payload is absent or empty is accepted by
\* gostt_decode_data_packet and rejected by gostt_crypto_decrypt before any
\* cryptographic operation, whatever the tag and whatever the library would
\* do; the handler signals the error and dispatches nothing.
C37_EmptyPayloadRejected ==
    (last.op = "write" /\ last.om \in EmptyPayloads) =>
        /\ LastPacket.rc = 0
        /\ LastPacket.out.encrypted_data_len = 0
        /\ gostt_crypto_decrypt(last.pre.crypto, LastPacket.out.iv, LastPacket.out.tag, <<>>, 0,
                                "none").rc = 0 - 1
        /\ last.rc = 0
        /\ last.calls = <<Call("has_key", 1), Call("gostt_decode_data_packet", 0),
                          Call("gostt_crypto_decrypt", 0 - 1),
                          Call("gostt_led_flash_error", 0)>>
        /\ led.s_flash_error
        /\ last.text = <<>>
        /\ last.command = <<>>
        /\ s_crypto = last.pre.crypto

\* the empty field 3 under the genuine tag of the empty ciphertext
C37_Witness ==
    /\ last.op = "write"
    /\ last.om = LenField(1, PeerIv) \o LenField(2, SessionTag(<<>>)) \o <<26, 0, 32, 1>>
    /\ codec.e.dfault = "none"
    /\ Called("gostt_crypto_decrypt", 0 - 1)
    /\ led.s_flash_error

\* the write handled last seals pt, with any sequence number, and the library
\* did not fail
Unsealed(pt) ==
    /\ last.op = "write"
    /\ codec.e.dfault = "none"
    /\ \E sq \in SeqFields : last.om = SessionSeal(pt, sq)

\* C40: integer fields are decoded modulo 2^32 without error: sequence_number
\* 2^32 + 42 is stored as 42, declared_length 2^32 + 2 as 2, command_kind
\* 2^32 + 1 as 1, and an EncryptedData whose command_kind is 2^32 is routed as
\* text.
C40_IntegersModulo2to32 ==
    /\ (last.op = "write" /\ DecryptCalled
            /\ SubSeq(last.om, Len(last.om) - 5, Len(last.om)) = <<32, 170, 128, 128, 128, 16>>) =>
           /\ LastPacket.rc = 0
           /\ LastPacket.out.packet_num = <<42, 0>>
    /\ Unsealed(PtWideText) =>
           /\ gostt_decode_encrypted_data(PtWideText, Len(PtWideText)).rc = 0
           /\ gostt_decode_encrypted_data(PtWideText, Len(PtWideText)).out.command_type = U32Zero
           /\ gostt_decode_keyboard_packet(SubSeq(PtWideText, 3, Len(PtWideText) - 6),
                                           Len(PtWideText) - 8).out.length = <<2, 0>>
           /\ Called("gostt_decode_keyboard_packet", 0)
           /\ last.text = <<Hi>>
           /\ last.command = <<>>
    /\ Unsealed(PtWideToggle) =>
           /\ last.text = <<>>
           /\ Len(last.command) = 1
           /\ last.command[1].command_type = <<GOSTT_CMD_MUTE_TOGGLE, 0>>

C40_Witness ==
    /\ Unsealed(PtWideText)
    /\ SubSeq(last.om, Len(last.om) - 5, Len(last.om)) = <<32, 170, 128, 128, 128, 16>>
    /\ last.text = <<Hi>>
    /\ led.s_flash_typing

\* what the handler that ran last returned and left behind
Observed ==
    Done(last.rc, s_crypto, nvs, led, last.notified, last.text, last.command, last.calls)

\* the packet delivered last, had its sequence-number field been sq, would
\* have been handled as it was
HandledAs(sq) ==
    tx_char_write_cb(SessionSeal(codec.pt, sq), last.pre.crypto, last.pre.nvs,
                     last.pre.conn, codec.led, codec.e) = Observed

\* the packet delivered over and over fits a write
Deliverable == Len(SessionSeal(codec.pt, codec.seq_field)) <= TX_BUF_SIZE

\* of the deliveries of one valid packet under the unchanged session key, every
\* one the library did not fail on was decrypted and dispatched
ReplayedEachTime ==
    /\ s_crypto.aes_key = FirstKey
    /\ Deliverable =>
           /\ codec.decrypted = codec.delivered - codec.faulted
           /\ codec.dispatched = codec.delivered - codec.faulted

C35_TypingAsynchronous ==
    codec.active =>
        /\ codec.i = 0
        /\ \A k \in DOMAIN codec.reports : codec.reports[k].task # "host"

\* C39: each decoder terminates: its loop is entered at position 0 and only
\* below the input length, every iteration either returns the error or leaves
\* the read position at least one byte further, so there are at most len
\* iterations, and the read position never exceeds the input length; success
\* is returned with the whole input read.
C39_DecoderProgress ==
    WireDone =>
        /\ \A k \in DOMAIN codec.heads : codec.heads[k] < Len(codec.buf)
        /\ \A k \in DOMAIN codec.heads :
               IF k < Len(codec.heads) THEN codec.heads[k] + 1 <= codec.heads[k + 1]
               ELSE codec.rc = 0 - 1 \/ codec.heads[k] + 1 <= codec.pos
        /\ codec.heads # <<>> => codec.heads[1] = 0
        /\ codec.heads = <<>> => Len(codec.buf) = 0
        /\ Len(codec.heads) <= Len(codec.buf)
        /\ codec.pos <= Len(codec.buf)
        /\ codec.rc \in {0, 0 - 1}
        /\ codec.rc = 0 => codec.pos = Len(codec.buf)

\* a data packet of as many fields as a buffer holds here, all of them read
C39_Witness ==
    /\ WireDone
    /\ codec.msg = "data_packet"
    /\ Len(codec.heads) = MaxItems
    /\ codec.rc = 0
    /\ codec.pos = Len(codec.buf)
    /\ codec.pos > MaxItems

====
